---- MODULE Spec2Model ----
(***************************************************************************)
(* Model of src/93-rate-limiter/rate_limiter.py: the in-memory storage     *)
(* backend and the four admission algorithms (token bucket, sliding window *)
(* log, fixed window, sliding window counter).                             *)
(*                                                                         *)
(* Conventions.                                                            *)
(*  - The clock (time.time()) is the variable now, in whole seconds.       *)
(*  - Real-valued quantities are kept exact as integers or as pairs        *)
(*    <<numerator, denominator>>.  The token level of the token bucket is  *)
(*    stored scaled by window_seconds (tokW = tokens * w), so that the     *)
(*    refill  time_passed * (n / w)  is the integer  time_passed * n.      *)
(*    IEEE rounding of Python floats is not modelled.                      *)
(*  - Optional values: None is << >>, a present value v is <<v>>.          *)
(*  - A storage key is the tuple <<prefix, identifier, window_id>> (0 when *)
(*    the key has no window index), the structured form of the f-strings   *)
(*    the limiters build.                                                  *)
(*  - Every InMemoryStorage method runs under the one storage lock; in the *)
(*    limiter specifications a storage call is therefore one step.  The    *)
(*    lock itself is modelled in SpecIncr, where increment is split into   *)
(*    its statements, and in SpecLock, where every storage call of an      *)
(*    allow method enters and leaves the lock.                             *)
(***************************************************************************)
EXTENDS Integers, Sequences, FiniteSets, TLC

VARIABLES cfg, now, data, expiry, lock, pc, loc, hist, ctor, wrap

vars == <<cfg, now, data, expiry, lock, pc, loc, hist, ctor, wrap>>

(***************************************************************************)
(* Bounds of the model.                                                    *)
(***************************************************************************)
\* last clock value (seconds) the clock is driven to
MaxTime == 5
\* number of allow calls of the single caller in the sequential specification
MaxCalls == 4
\* largest max_requests of a configuration
MaxN == 2
\* number of threads that race with one call each (SpecRace)
MaxThreads == 4
\* number of threads making several calls concurrently (SpecFW, SpecIncr)
MaxCallers == 2
\* seconds the clock advances while the callers of SpecFW run
MaxRaceTime == 1
\* number of calls made on a limiter constructed in SpecApp
MaxAppCalls == 3

Identities == {"A", "B"}
Algorithms == {"token_bucket", "sliding_window_log", "fixed_window",
               "sliding_window_counter"}
\* window_seconds of the configurations explored
Windows == {2, 3}

None == << >>
Some(v) == <<v>>
NoKey == <<"", "", 0>>
\* threading.Lock(): unlocked, or held by a thread that took it at a
\* statement of its call
Free == [holder |-> 0, at |-> ""]
HeldBy(t, label) == [holder |-> t, at |-> label]

Max(a, b) == IF a >= b THEN a ELSE b
Min(a, b) == IF a <= b THEN a ELSE b

\* Python int(x) of the rational num/den (den > 0): truncation toward zero
IntTrunc(num, den) == IF num >= 0 THEN num \div den ELSE -((-num) \div den)

\* d[k] = v for a dict d
Put(d, k, v) == [x \in (DOMAIN d) \cup {k} |-> IF x = k THEN v ELSE d[x]]
\* d with the keys of gone popped
Drop(d, gone) == [x \in (DOMAIN d) \ gone |-> d[x]]

RECURSIVE SeqMin(_)
SeqMin(s) == IF Len(s) = 1 THEN s[1] ELSE Min(s[1], SeqMin(Tail(s)))

(***************************************************************************)
(* RateLimitConfig                                                         *)
(***************************************************************************)
\* mutant: only max_requests is validated
ConfigValid_QuotaOnly(n, w) == n > 0

ConfigValid(n, w) == n > 0 /\ w > 0

\* __post_init__: the ValueError raised, max_requests being checked first
ConfigError(n, w) ==
    IF n <= 0 THEN "ValueError: max_requests must be positive"
    ELSE IF w <= 0 THEN "ValueError: window_seconds must be positive"
    ELSE ""

(***************************************************************************)
(* InMemoryStorage.  A storage value S is [data, expiry]; t is the value   *)
(* time.time() returns inside the method.  Methods return [st, ret].       *)
(***************************************************************************)
\* mutant: the comparison inverted, so that live keys are purged
Expired_Inverted(exp_time, current_time) == exp_time >= current_time

Expired(exp_time, current_time) == exp_time <= current_time

CleanupExpired(S, t) ==
    LET expired == {k \in DOMAIN S.expiry : Expired(S.expiry[k], t)}
    IN  [data |-> Drop(S.data, expired), expiry |-> Drop(S.expiry, expired)]

StorageIncrement(S, key, window, t) ==
    LET c == CleanupExpired(S, t)
        current == IF key \in DOMAIN c.data THEN c.data[key] ELSE 0
        new_value == current + 1
    IN  [st |-> [data |-> Put(c.data, key, new_value),
                 expiry |-> Put(c.expiry, key, t + window)],
         ret |-> new_value]

StorageGet(S, key, t) ==
    LET c == CleanupExpired(S, t)
    IN  [st |-> c,
         ret |-> IF key \in DOMAIN c.data THEN Some(c.data[key]) ELSE None]

StorageSet(S, key, value, ttl, t) ==
    [st |-> [data |-> Put(S.data, key, value),
             expiry |-> Put(S.expiry, key, t + ttl)],
     ret |-> None]

StorageDelete(S, key) ==
    [st |-> [data |-> Drop(S.data, {key}), expiry |-> Drop(S.expiry, {key})],
     ret |-> None]

\* isinstance(self._data[key], (list, deque)): only the log keys hold deques
IsDequeKey(key) == key[1] = "swl"

StorageGetList(S, key, t) ==
    LET c == CleanupExpired(S, t)
    IN  [st |-> c,
         ret |-> IF key \in DOMAIN c.data /\ IsDequeKey(key)
                 THEN c.data[key] ELSE << >>]

StorageAddToList(S, key, value, ttl, t) ==
    LET cur == IF key \in DOMAIN S.data THEN S.data[key] ELSE << >>
    IN  [st |-> [data |-> Put(S.data, key, Append(cur, value)),
                 expiry |-> Put(S.expiry, key, t + ttl)],
         ret |-> None]

\* mutant: a time stamp exactly window_seconds old is kept
Newer_Inclusive(ts, cutoff) == ts >= cutoff

\* cleanup_list keeps t > cutoff
Newer(ts, cutoff) == ts > cutoff

StorageCleanupList(S, key, cutoff) ==
    [st |-> IF key \in DOMAIN S.data /\ IsDequeKey(key)
            THEN [S EXCEPT !.data[key] =
                      SelectSeq(S.data[key], LAMBDA ts : Newer(ts, cutoff))]
            ELSE S,
     ret |-> None]

(***************************************************************************)
(* The decisions of the four limiters, as the code computes them.          *)
(***************************************************************************)
\* mutant: the bucket refills at twice the configured rate
TB_Refill_Double(tokW, last_refill, current_time, n, w) ==
    Min(n * w, tokW + (current_time - last_refill) * 2 * n)

\* TokenBucketLimiter: tokens = min(max_requests, tokens + time_passed * rate)
TB_Refill(tokW, last_refill, current_time, n, w) ==
    Min(n * w, tokW + (current_time - last_refill) * n)

\* mutant: any positive token fraction admits
TB_Allowed_AnyToken(tokW, w) == tokW > 0

\* if tokens >= 1
TB_Allowed(tokW, w) == tokW >= w

\* mutant: the wait computed as if the bucket refilled twice as fast
TB_RetryAfter_Half(tokW, n, w) == Some(<<w - tokW, 2 * n>>)

\* retry_after = (1 - tokens) / refill_rate
TB_RetryAfter(tokW, n, w) == Some(<<w - tokW, n>>)

\* reset_at = current_time + (max_requests - tokens) / refill_rate
TB_ResetAt(current_time, tokW, n, w) == <<current_time * n + n * w - tokW, n>>

\* remaining = int(tokens)
TB_Remaining(tokW, w) == IntTrunc(tokW, w)

\* mutant: off by one, a full log still admits
SWL_Allowed_OffByOne(request_count, n) == request_count <= n

\* SlidingWindowLogLimiter: if request_count < max_requests
SWL_Allowed(request_count, n) == request_count < n

\* retry_after = oldest_request + window_seconds - current_time
SWL_RetryAfter(request_log, current_time, w) ==
    LET oldest_request == IF request_log # << >> THEN SeqMin(request_log)
                          ELSE current_time
    IN  Some(<<oldest_request + w - current_time, 1>>)

\* window_id = int(current_time // window_seconds)
WindowId(current_time, w) == current_time \div w

\* mutant: the key does not carry the window index
FW_WindowKey_NoIndex(identifier, current_time, w) == <<"fw", identifier, 0>>

\* FixedWindowLimiter._get_window_key
FW_WindowKey(identifier, current_time, w) ==
    <<"fw", identifier, WindowId(current_time, w)>>

\* mutant: off by one, count n+1 still admits
FW_Allowed_OffByOne(count, n) == count <= n + 1

\* if count <= max_requests
FW_Allowed(count, n) == count <= n

\* next_window - current_time
FW_RetryAfter(current_time, w) ==
    Some(<<(WindowId(current_time, w) + 1) * w - current_time, 1>>)

\* mutant: reset_at is the start of the current window
FW_ResetAt_ThisWindow(current_time, w) == <<WindowId(current_time, w) * w, 1>>

\* reset_at = (window_id + 1) * window_seconds
FW_ResetAt(current_time, w) == <<(WindowId(current_time, w) + 1) * w, 1>>

\* SlidingWindowCounterLimiter._get_window_keys
SWC_CurrentKey(identifier, current_time, w) ==
    <<"swc", identifier, WindowId(current_time, w)>>

SWC_PreviousKey(identifier, current_time, w) ==
    <<"swc", identifier, WindowId(current_time, w) - 1>>

\* window_start = (current_time // window_seconds) * window_seconds
SWC_WindowStart(current_time, w) == (current_time \div w) * w

\* mutant: the previous window keeps its full weight throughout the window
SWC_Weighted_NoDecay(previous_count, current_count, current_time, w) ==
    previous_count * w + current_count * w

\* weighted_count * w, with elapsed_percentage = (current_time - window_start) / w
SWC_Weighted(previous_count, current_count, current_time, w) ==
    previous_count * (w - (current_time - SWC_WindowStart(current_time, w)))
    + current_count * w

\* mutant: off by one, a weighted count of exactly n still admits
SWC_Allowed_OffByOne(weightedW, n, w) == weightedW <= n * w

\* if weighted_count < max_requests
SWC_Allowed(weightedW, n, w) == weightedW < n * w

\* max(0, int(max_requests - weighted_count - 1))
SWC_Remaining(weightedW, n, w) == Max(0, IntTrunc(n * w - weightedW - w, w))

\* mutant: the denied branch leaves retry_after unset
SWC_RetryAfter_Unset(current_time, w) == None

\* retry_after = (1 - elapsed_percentage) * window_seconds
SWC_RetryAfter(current_time, w) ==
    Some(<<w - (current_time - SWC_WindowStart(current_time, w)), 1>>)

\* get(key) or 0
OrZero(opt) == IF opt = None THEN 0 ELSE opt[1]

(***************************************************************************)
(* State.  cfg is the configuration of the run: algorithm, max_requests n, *)
(* window_seconds w, k caller threads issuing m calls each, the clock      *)
(* value start at which the limiter is constructed.  pc[t] is the          *)
(* statement thread t is at, loc[t] its local variables, hist[t] the       *)
(* results its calls returned so far.  The field purged of loc[t] is not   *)
(* a variable of the code: it records for the checks that a call found its *)
(* key expired.  ctor is the construction of the limiter (its arguments    *)
(* and how far it got), wrap[t] the outcomes of thread t's calls of a      *)
(* function decorated with rate_limit; both are used by SpecApp only.      *)
(***************************************************************************)
Threads == 1..cfg.k

InitLoc == [identifier |-> "", key |-> NoKey, key2 |-> NoKey,
            called_at |-> 0, current_time |-> 0, tokens |-> 0, count |-> 0,
            allowed |-> FALSE, remaining |-> 0, retry_after |-> None,
            purged |-> FALSE]

Storage == [data |-> data, expiry |-> expiry]

SetStorage(S) == data' = S.data /\ expiry' = S.expiry

Goto(t, label, locals) ==
    /\ pc' = [pc EXCEPT ![t] = label]
    /\ loc' = [loc EXCEPT ![t] = locals]
    /\ UNCHANGED <<hist, ctor, wrap>>

\* return RateLimitResult(allowed, remaining, reset_at, retry_after)
Return(t, called_at, allowed, remaining, reset_at, retry_after) ==
    /\ hist' = [hist EXCEPT ![t] = Append(@,
                  [identifier |-> loc[t].identifier, t |-> called_at,
                   current_time |-> loc[t].current_time,
                   tEnd |-> now, allowed |-> allowed, remaining |-> remaining,
                   reset_at |-> reset_at, retry_after |-> retry_after])]
    /\ pc' = [pc EXCEPT ![t] = "idle"]
    /\ loc' = [loc EXCEPT ![t] = InitLoc]
    /\ UNCHANGED <<ctor, wrap>>

\* thread t exists in this run and is at statement label
At(t, label) == t \in Threads /\ pc[t] = label

CanCall(t, algorithm) ==
    /\ cfg.alg = algorithm
    /\ At(t, "idle")
    /\ Len(hist[t]) < cfg.m

\* the limiter of the run is handed over constructed
Prebuilt == [step |-> "built"]

InitState(configs) ==
    /\ cfg \in configs
    /\ now = cfg.start
    /\ data = << >>
    /\ expiry = << >>
    /\ lock = Free
    /\ pc = [t \in 1..cfg.k |-> "idle"]
    /\ loc = [t \in 1..cfg.k |-> InitLoc]
    /\ hist = [t \in 1..cfg.k |-> << >>]
    /\ ctor = Prebuilt
    /\ wrap = [t \in 1..cfg.k |-> << >>]

(***************************************************************************)
(* The clock.                                                              *)
(***************************************************************************)
Tick ==
    /\ now < MaxTime
    /\ now' = now + 1
    /\ UNCHANGED <<cfg, data, expiry, lock, pc, loc, hist, ctor, wrap>>

\* a sequential caller: the clock is read as one value throughout a call
TickIdle ==
    /\ \A t \in Threads : pc[t] = "idle"
    /\ Tick

(***************************************************************************)
(* TokenBucketLimiter.allow                                                *)
(***************************************************************************)
TB_Start(t, identifier) ==
    /\ CanCall(t, "token_bucket")
    /\ Goto(t, "tb_get_tokens",
            [InitLoc EXCEPT !.identifier = identifier,
                            !.key = <<"tb:tokens", identifier, 0>>,
                            !.key2 = <<"tb:last", identifier, 0>>,
                            !.called_at = now,
                            !.current_time = now])
    /\ UNCHANGED <<cfg, now, data, expiry, lock>>

TB_GetTokens(t) ==
    /\ At(t, "tb_get_tokens")
    /\ LET r == StorageGet(Storage, loc[t].key, now)
       IN  /\ SetStorage(r.st)
           /\ Goto(t, "tb_get_last", [loc[t] EXCEPT !.retry_after = r.ret])
    /\ UNCHANGED <<cfg, now, lock>>

\* lines 177-200: the second read, the refill and the decision
TB_GetLast(t) ==
    /\ At(t, "tb_get_last")
    /\ LET r == StorageGet(Storage, loc[t].key2, now)
           stored == loc[t].retry_after
           fresh == stored = None \/ r.ret = None
           tokens0 == IF fresh THEN cfg.n * cfg.w ELSE stored[1]
           last_refill == IF fresh THEN loc[t].current_time ELSE r.ret[1]
           tokens1 == TB_Refill(tokens0, last_refill, loc[t].current_time,
                                cfg.n, cfg.w)
           allowed == TB_Allowed(tokens1, cfg.w)
       IN  /\ SetStorage(r.st)
           /\ Goto(t, "tb_set_tokens",
                   [loc[t] EXCEPT
                      !.allowed = allowed,
                      !.tokens = IF allowed THEN tokens1 - cfg.w ELSE tokens1,
                      !.retry_after = IF allowed THEN None
                                      ELSE TB_RetryAfter(tokens1, cfg.n, cfg.w)])
    /\ UNCHANGED <<cfg, now, lock>>

TB_SetTokens(t) ==
    /\ At(t, "tb_set_tokens")
    /\ SetStorage(StorageSet(Storage, loc[t].key, loc[t].tokens,
                             cfg.w * 2, now).st)
    /\ Goto(t, "tb_set_last", loc[t])
    /\ UNCHANGED <<cfg, now, lock>>

TB_SetLast(t) ==
    /\ At(t, "tb_set_last")
    /\ SetStorage(StorageSet(Storage, loc[t].key2, loc[t].current_time,
                             cfg.w * 2, now).st)
    /\ Return(t, loc[t].called_at, loc[t].allowed,
              TB_Remaining(loc[t].tokens, cfg.w),
              TB_ResetAt(loc[t].current_time, loc[t].tokens, cfg.n, cfg.w),
              loc[t].retry_after)
    /\ UNCHANGED <<cfg, now, lock>>

(***************************************************************************)
(* SlidingWindowLogLimiter.allow                                           *)
(***************************************************************************)
SWL_Start(t, identifier) ==
    /\ CanCall(t, "sliding_window_log")
    /\ Goto(t, "swl_cleanup",
            [InitLoc EXCEPT !.identifier = identifier,
                            !.key = <<"swl", identifier, 0>>,
                            !.called_at = now,
                            !.current_time = now])
    /\ UNCHANGED <<cfg, now, data, expiry, lock>>

SWL_Cleanup(t) ==
    /\ At(t, "swl_cleanup")
    /\ SetStorage(StorageCleanupList(Storage, loc[t].key,
                                     loc[t].current_time - cfg.w).st)
    /\ Goto(t, "swl_get_list", loc[t])
    /\ UNCHANGED <<cfg, now, lock>>

\* lines 243-262: the read and the decision; a denied call returns here
SWL_GetList(t) ==
    /\ At(t, "swl_get_list")
    /\ LET r == StorageGetList(Storage, loc[t].key, now)
           request_count == Len(r.ret)
       IN  /\ SetStorage(r.st)
           /\ IF SWL_Allowed(request_count, cfg.n)
              THEN Goto(t, "swl_add",
                        [loc[t] EXCEPT !.allowed = TRUE,
                                       !.remaining = cfg.n - request_count - 1])
              ELSE Return(t, loc[t].called_at, FALSE, 0,
                          <<loc[t].current_time + cfg.w, 1>>,
                          SWL_RetryAfter(r.ret, loc[t].current_time, cfg.w))
    /\ UNCHANGED <<cfg, now, lock>>

SWL_Add(t) ==
    /\ At(t, "swl_add")
    /\ SetStorage(StorageAddToList(Storage, loc[t].key, loc[t].current_time,
                                   cfg.w, now).st)
    /\ Return(t, loc[t].called_at, TRUE, loc[t].remaining,
              <<loc[t].current_time + cfg.w, 1>>, None)
    /\ UNCHANGED <<cfg, now, lock>>

(***************************************************************************)
(* FixedWindowLimiter.allow                                                *)
(***************************************************************************)
FW_Start(t, identifier) ==
    /\ CanCall(t, "fixed_window")
    /\ Goto(t, "fw_increment",
            [InitLoc EXCEPT !.identifier = identifier,
                            !.key = FW_WindowKey(identifier, now, cfg.w),
                            !.called_at = now])
    /\ UNCHANGED <<cfg, now, data, expiry, lock>>

FW_Increment(t) ==
    /\ At(t, "fw_increment")
    /\ LET r == StorageIncrement(Storage, loc[t].key, cfg.w, now)
           allowed == FW_Allowed(r.ret, cfg.n)
       IN  /\ SetStorage(r.st)
           /\ Goto(t, IF allowed THEN "fw_reset" ELSE "fw_retry",
                   [loc[t] EXCEPT !.count = r.ret,
                                  !.allowed = allowed,
                                  !.remaining = IF allowed THEN cfg.n - r.ret
                                                ELSE 0])
    /\ UNCHANGED <<cfg, now, lock>>

\* lines 306-309: the clock is read again for retry_after
FW_Retry(t) ==
    /\ At(t, "fw_retry")
    /\ Goto(t, "fw_reset",
            [loc[t] EXCEPT !.retry_after = FW_RetryAfter(now, cfg.w)])
    /\ UNCHANGED <<cfg, now, data, expiry, lock>>

\* lines 312-321: the clock is read again for reset_at
FW_Reset(t) ==
    /\ At(t, "fw_reset")
    /\ Return(t, loc[t].called_at, loc[t].allowed, loc[t].remaining,
              FW_ResetAt(now, cfg.w), loc[t].retry_after)
    /\ UNCHANGED <<cfg, now, data, expiry, lock>>

(***************************************************************************)
(* SlidingWindowCounterLimiter.allow                                       *)
(***************************************************************************)
SWC_Start(t, identifier) ==
    /\ CanCall(t, "sliding_window_counter")
    /\ Goto(t, "swc_time",
            [InitLoc EXCEPT !.identifier = identifier,
                            !.key = SWC_CurrentKey(identifier, now, cfg.w),
                            !.key2 = SWC_PreviousKey(identifier, now, cfg.w),
                            !.called_at = now])
    /\ UNCHANGED <<cfg, now, data, expiry, lock>>

SWC_Time(t) ==
    /\ At(t, "swc_time")
    /\ Goto(t, "swc_get_current", [loc[t] EXCEPT !.current_time = now])
    /\ UNCHANGED <<cfg, now, data, expiry, lock>>

SWC_GetCurrent(t) ==
    /\ At(t, "swc_get_current")
    /\ LET r == StorageGet(Storage, loc[t].key, now)
       IN  /\ SetStorage(r.st)
           /\ Goto(t, "swc_get_previous",
                   [loc[t] EXCEPT !.count = OrZero(r.ret)])
    /\ UNCHANGED <<cfg, now, lock>>

\* lines 354-378: the second read and the decision; a denied call returns here
SWC_GetPrevious(t) ==
    /\ At(t, "swc_get_previous")
    /\ LET r == StorageGet(Storage, loc[t].key2, now)
           weighted == SWC_Weighted(OrZero(r.ret), loc[t].count,
                                    loc[t].current_time, cfg.w)
           reset_at == <<SWC_WindowStart(loc[t].current_time, cfg.w) + cfg.w, 1>>
       IN  /\ SetStorage(r.st)
           /\ IF SWC_Allowed(weighted, cfg.n, cfg.w)
              THEN Goto(t, "swc_increment",
                        [loc[t] EXCEPT
                           !.allowed = TRUE,
                           !.remaining = SWC_Remaining(weighted, cfg.n, cfg.w)])
              ELSE Return(t, loc[t].called_at, FALSE, 0, reset_at,
                          SWC_RetryAfter(loc[t].current_time, cfg.w))
    /\ UNCHANGED <<cfg, now, lock>>

SWC_Increment(t) ==
    /\ At(t, "swc_increment")
    /\ SetStorage(StorageIncrement(Storage, loc[t].key, cfg.w * 2, now).st)
    /\ Return(t, loc[t].called_at, TRUE, loc[t].remaining,
              <<SWC_WindowStart(loc[t].current_time, cfg.w) + cfg.w, 1>>, None)
    /\ UNCHANGED <<cfg, now, lock>>

(***************************************************************************)
(* Spec: one caller making MaxCalls sequential calls; the clock advances   *)
(* between calls.                                                          *)
(***************************************************************************)
SeqConfigs ==
    {[alg |-> a, n |-> n, w |-> w, k |-> 1, m |-> MaxCalls, start |-> 0] :
        a \in Algorithms, n \in 1..MaxN, w \in Windows}

Init == InitState(SeqConfigs)

Next ==
    \/ TickIdle
    \/ \E identifier \in Identities : TB_Start(1, identifier)
    \/ TB_GetTokens(1)
    \/ TB_GetLast(1)
    \/ TB_SetTokens(1)
    \/ TB_SetLast(1)
    \/ \E identifier \in Identities : SWL_Start(1, identifier)
    \/ SWL_Cleanup(1)
    \/ SWL_GetList(1)
    \/ SWL_Add(1)
    \/ \E identifier \in Identities : FW_Start(1, identifier)
    \/ FW_Increment(1)
    \/ FW_Retry(1)
    \/ FW_Reset(1)
    \/ \E identifier \in Identities : SWC_Start(1, identifier)
    \/ SWC_Time(1)
    \/ SWC_GetCurrent(1)
    \/ SWC_GetPrevious(1)
    \/ SWC_Increment(1)

Spec == Init /\ [][Next]_vars

(***************************************************************************)
(* SpecFW: k threads issue m calls each on one fixed-window limiter, for   *)
(* identities of their choice; storage calls and clock reads interleave    *)
(* freely and the clock may advance at any point of a call.  The threads   *)
(* run the same code, so they are numbered in the order of their first     *)
(* call (InOrder).                                                         *)
(***************************************************************************)
FWShapes == {s \in (2..MaxCallers) \X (1..2) : s[1] * s[2] <= MaxCalls}

\* the run starts at the beginning of a window or one second before its end
FWConfigs ==
    UNION {{[alg |-> "fixed_window", n |-> n, w |-> w, k |-> s[1], m |-> s[2],
             start |-> b] : b \in {0, w - 1}} :
           n \in 1..MaxN, w \in Windows, s \in FWShapes}

InitFW == InitState(FWConfigs)

\* the clock advances by at most MaxRaceTime while the callers run
TickRace == now < cfg.start + MaxRaceTime /\ Tick

InOrder(t) ==
    \/ t = 1
    \/ /\ t - 1 \in Threads
       /\ (pc[t - 1] # "idle" \/ hist[t - 1] # << >>)

NextFW ==
    \/ TickRace
    \/ \E t \in 1..MaxCallers :
          \/ \E identifier \in Identities : FW_Start(t, identifier) /\ InOrder(t)
          \/ FW_Increment(t)
          \/ FW_Retry(t)
          \/ FW_Reset(t)

SpecFW == InitFW /\ [][NextFW]_vars

(***************************************************************************)
(* SpecRace: k threads call allow once each, for the same identity and at  *)
(* the same instant; their storage calls interleave freely.                *)
(***************************************************************************)
RaceConfigs ==
    {[alg |-> a, n |-> n, w |-> w, k |-> k, m |-> 1, start |-> 0] :
        a \in Algorithms, n \in 1..MaxN, w \in Windows, k \in 2..MaxThreads}

InitRace == InitState(RaceConfigs)

NextRace ==
    \E t \in 1..MaxThreads :
       \/ TB_Start(t, "A")
       \/ TB_GetTokens(t)
       \/ TB_GetLast(t)
       \/ TB_SetTokens(t)
       \/ TB_SetLast(t)
       \/ SWL_Start(t, "A")
       \/ SWL_Cleanup(t)
       \/ SWL_GetList(t)
       \/ SWL_Add(t)
       \/ FW_Start(t, "A")
       \/ FW_Increment(t)
       \/ FW_Retry(t)
       \/ FW_Reset(t)
       \/ SWC_Start(t, "A")
       \/ SWC_Time(t)
       \/ SWC_GetCurrent(t)
       \/ SWC_GetPrevious(t)
       \/ SWC_Increment(t)

SpecRace == InitRace /\ [][NextRace]_vars

(***************************************************************************)
(* SpecSkew: k threads call allow m times each for one identity; their     *)
(* storage calls interleave freely and the clock may advance at any point  *)
(* of a call, so a thread can hold a current_time older than the one       *)
(* another thread has already stored.                                      *)
(***************************************************************************)
SkewConfigs ==
    {[alg |-> a, n |-> n, w |-> w, k |-> k, m |-> m, start |-> 0] :
        a \in Algorithms, n \in 1..MaxN, w \in Windows,
        k \in 2..MaxCallers, m \in 1..2}

InitSkew == InitState(SkewConfigs)

NextSkew ==
    \/ TickRace
    \/ \E t \in 1..MaxCallers :
          \/ TB_Start(t, "A") /\ InOrder(t)
          \/ TB_GetTokens(t)
          \/ TB_GetLast(t)
          \/ TB_SetTokens(t)
          \/ TB_SetLast(t)
          \/ SWL_Start(t, "A") /\ InOrder(t)
          \/ SWL_Cleanup(t)
          \/ SWL_GetList(t)
          \/ SWL_Add(t)
          \/ FW_Start(t, "A") /\ InOrder(t)
          \/ FW_Increment(t)
          \/ FW_Retry(t)
          \/ FW_Reset(t)
          \/ SWC_Start(t, "A") /\ InOrder(t)
          \/ SWC_Time(t)
          \/ SWC_GetCurrent(t)
          \/ SWC_GetPrevious(t)
          \/ SWC_Increment(t)

SpecSkew == InitSkew /\ [][NextSkew]_vars

(***************************************************************************)
(* SpecIncr: k threads perform m calls each of                             *)
(* InMemoryStorage.increment(key, window) on one key, statement by         *)
(* statement, under the storage lock.  hist[t] holds the values returned   *)
(* to thread t; purged records whether the call's _cleanup_expired removed *)
(* the key (it had expired).                                               *)
(***************************************************************************)
CounterKey == <<"counter", "", 0>>

\* mutant: the method body runs without taking the lock
LockFree_NoLock(l) == TRUE

\* with self._lock: the lock can be taken when no thread holds it
LockFree(l) == l = Free

Inc_Acquire(t) ==
    /\ cfg.alg = "increment"
    /\ At(t, "idle")
    /\ Len(hist[t]) < cfg.m
    /\ LockFree(lock)
    /\ lock' = HeldBy(t, "idle")
    /\ Goto(t, "inc_cleanup", [InitLoc EXCEPT !.key = CounterKey])
    /\ UNCHANGED <<cfg, now, data, expiry>>

Inc_Cleanup(t) ==
    /\ At(t, "inc_cleanup")
    /\ SetStorage(CleanupExpired(Storage, now))
    /\ Goto(t, "inc_read",
            [loc[t] EXCEPT !.purged = loc[t].key \in DOMAIN expiry
                                      /\ Expired(expiry[loc[t].key], now)])
    /\ UNCHANGED <<cfg, now, lock>>

\* current = self._data.get(key, 0); new_value = current + 1
Inc_Read(t) ==
    /\ At(t, "inc_read")
    /\ Goto(t, "inc_write",
            [loc[t] EXCEPT !.count = (IF loc[t].key \in DOMAIN data
                                      THEN data[loc[t].key] ELSE 0) + 1])
    /\ UNCHANGED <<cfg, now, data, expiry, lock>>

\* self._data[key] = new_value
Inc_Write(t) ==
    /\ At(t, "inc_write")
    /\ data' = Put(data, loc[t].key, loc[t].count)
    /\ Goto(t, "inc_expiry", loc[t])
    /\ UNCHANGED <<cfg, now, expiry, lock>>

\* self._expiry[key] = time.time() + window
Inc_Expiry(t) ==
    /\ At(t, "inc_expiry")
    /\ expiry' = Put(expiry, loc[t].key, now + cfg.w)
    /\ Goto(t, "inc_return", loc[t])
    /\ UNCHANGED <<cfg, now, data, lock>>

\* return new_value, leaving the with block
Inc_Return(t) ==
    /\ At(t, "inc_return")
    /\ lock' = Free
    /\ hist' = [hist EXCEPT ![t] = Append(@, [ret |-> loc[t].count,
                                               purged |-> loc[t].purged])]
    /\ pc' = [pc EXCEPT ![t] = "idle"]
    /\ loc' = [loc EXCEPT ![t] = InitLoc]
    /\ UNCHANGED <<cfg, now, data, expiry, ctor, wrap>>

IncrConfigs ==
    {[alg |-> "increment", n |-> 1, w |-> w, k |-> k, m |-> m, start |-> 0] :
        w \in Windows, k \in 2..MaxCallers, m \in 1..2}

InitIncr == InitState(IncrConfigs)

NextIncr ==
    \/ Tick
    \/ \E t \in 1..MaxCallers :
          \/ Inc_Acquire(t)
          \/ Inc_Cleanup(t)
          \/ Inc_Read(t)
          \/ Inc_Write(t)
          \/ Inc_Expiry(t)
          \/ Inc_Return(t)

SpecIncr == InitIncr /\ [][NextIncr]_vars

(***************************************************************************)
(* SpecApp: construction and use.  A limiter is constructed either by the  *)
(* caller (RateLimitConfig(...) if a config is passed, then                *)
(* RateLimiter(algorithm, config, storage)) or by decorating a function    *)
(* with rate_limit(max_requests, window_seconds, algorithm, key_func);     *)
(* then up to MaxAppCalls sequential calls are made, of allow or of the    *)
(* decorated function.  ctor.created lists the objects constructed so far, *)
(* ctor.step is the statement the construction is at.                      *)
(***************************************************************************)
MaxRequestsArgs == (-1)..MaxN
WindowArgs == {-1, 0} \cup Windows
AlgorithmArgs == Algorithms \cup {"leaky_bucket"}

\* positional arguments of a call of the decorated function
CallArgs == {<< >>, <<"A">>}

\* key_func: none, or a function of the call's arguments
KeyFuncs == {None, Some([a \in CallArgs |-> IF a = << >> THEN "A" ELSE "B"])}

\* RateLimitConfig(max_requests=100, window_seconds=60)
DefaultConfig == [max_requests |-> 100, window_seconds |-> 60]

\* RateLimiter.ALGORITHMS; a limiter class is denoted by the tag cfg.alg
\* carries, which is its registry name
ALGORITHMS == [name \in Algorithms |-> name]

\* mutant: every name passes the check
KnownAlgorithm_Any(algorithm) == TRUE

\* if algorithm not in self.ALGORITHMS: raise ValueError
KnownAlgorithm(algorithm) == algorithm \in DOMAIN ALGORITHMS

\* the limiter not constructed yet
Unbuilt == [alg |-> "", n |-> 0, w |-> 0, k |-> 1, m |-> MaxAppCalls, start |-> 0]

CtorArgs ==
    {[mode |-> "decorator", max_requests |-> n, window_seconds |-> w,
      config_given |-> TRUE, algorithm |-> a, storage_given |-> FALSE,
      key_func |-> f, step |-> "config", error |-> "", config |-> None,
      created |-> {}] :
        n \in MaxRequestsArgs, w \in WindowArgs, a \in AlgorithmArgs,
        f \in KeyFuncs}
    \cup
    {[mode |-> "facade", max_requests |-> n, window_seconds |-> w,
      config_given |-> TRUE, algorithm |-> a, storage_given |-> g,
      key_func |-> None, step |-> "config", error |-> "", config |-> None,
      created |-> {}] :
        n \in MaxRequestsArgs, w \in WindowArgs, a \in AlgorithmArgs,
        g \in BOOLEAN}
    \cup
    {[mode |-> "facade", max_requests |-> 0, window_seconds |-> 0,
      config_given |-> FALSE, algorithm |-> a, storage_given |-> g,
      key_func |-> None, step |-> "facade", error |-> "", config |-> None,
      created |-> {}] :
        a \in AlgorithmArgs, g \in BOOLEAN}

InitApp ==
    /\ cfg = Unbuilt
    /\ now = 0
    /\ data = << >>
    /\ expiry = << >>
    /\ lock = Free
    /\ pc = [t \in 1..1 |-> "idle"]
    /\ loc = [t \in 1..1 |-> InitLoc]
    /\ hist = [t \in 1..1 |-> << >>]
    /\ ctor \in CtorArgs
    /\ wrap = [t \in 1..1 |-> << >>]

\* RateLimitConfig(max_requests, window_seconds): the fields are assigned and
\* __post_init__ raises or returns
Config_Construct ==
    /\ ctor.step = "config"
    /\ ctor' = IF ConfigValid(ctor.max_requests, ctor.window_seconds)
               THEN [ctor EXCEPT
                       !.config = Some([max_requests |-> ctor.max_requests,
                                        window_seconds |-> ctor.window_seconds]),
                       !.created = @ \cup {"config"},
                       !.step = "facade"]
               ELSE [ctor EXCEPT
                       !.step = "failed",
                       !.error = ConfigError(ctor.max_requests,
                                             ctor.window_seconds)]
    /\ UNCHANGED <<cfg, now, data, expiry, lock, pc, loc, hist, wrap>>

\* RateLimiter.__init__, lines 415-417
RL_CheckAlgorithm ==
    /\ ctor.step = "facade"
    /\ ctor' = IF KnownAlgorithm(ctor.algorithm)
               THEN [ctor EXCEPT !.step = "default_config"]
               ELSE [ctor EXCEPT !.step = "failed",
                                 !.error = "ValueError: Unknown algorithm"]
    /\ UNCHANGED <<cfg, now, data, expiry, lock, pc, loc, hist, wrap>>

\* self.config = config or RateLimitConfig(max_requests=100, window_seconds=60)
RL_Config ==
    /\ ctor.step = "default_config"
    /\ ctor' = IF ctor.config # None
               THEN [ctor EXCEPT !.step = "storage"]
               ELSE [ctor EXCEPT !.config = Some(DefaultConfig),
                                 !.created = @ \cup {"default_config"},
                                 !.step = "storage"]
    /\ UNCHANGED <<cfg, now, data, expiry, lock, pc, loc, hist, wrap>>

\* self.storage = storage or InMemoryStorage()
RL_Storage ==
    /\ ctor.step = "storage"
    /\ IF ctor.storage_given
       THEN /\ ctor' = [ctor EXCEPT !.step = "limiter"]
            /\ UNCHANGED <<data, expiry, lock>>
       ELSE /\ ctor' = [ctor EXCEPT !.created = @ \cup {"storage"},
                                    !.step = "limiter"]
            /\ data' = << >>
            /\ expiry' = << >>
            /\ lock' = Free
    /\ UNCHANGED <<cfg, now, pc, loc, hist, wrap>>

\* limiter_class = self.ALGORITHMS[algorithm]
\* self.limiter = limiter_class(self.config, self.storage)
RL_Limiter ==
    /\ ctor.step = "limiter"
    /\ IF ctor.algorithm \in DOMAIN ALGORITHMS
       THEN /\ ctor' = [ctor EXCEPT !.created = @ \cup {"limiter"},
                                    !.step = "built"]
            /\ cfg' = [Unbuilt EXCEPT
                         !.alg = ALGORITHMS[ctor.algorithm],
                         !.n = ctor.config[1].max_requests,
                         !.w = ctor.config[1].window_seconds]
       ELSE /\ ctor' = [ctor EXCEPT !.step = "failed", !.error = "KeyError"]
            /\ UNCHANGED cfg
    /\ UNCHANGED <<now, data, expiry, lock, pc, loc, hist, wrap>>

\* the clock advances between calls on the constructed limiter
TickApp ==
    /\ ctor.step = "built"
    /\ now < MaxRaceTime
    /\ TickIdle

\* RateLimiter.allow(identifier): return self.limiter.allow(identifier)
RL_Allow(t, identifier) ==
    /\ ctor.step = "built"
    /\ ctor.mode = "facade"
    /\ \/ TB_Start(t, identifier)
       \/ SWL_Start(t, identifier)
       \/ FW_Start(t, identifier)
       \/ SWC_Start(t, identifier)

\* wrapper, lines 467-472: the identifier of a call
WrapIdentifier(key_func, args) ==
    IF key_func # None THEN key_func[1][args]
    ELSE IF args # << >> THEN args[1]
    ELSE "default"

\* wrapper, lines 466-475: the identifier is extracted and limiter.allow entered
Wrap_Call(t, args) ==
    /\ ctor.step = "built"
    /\ ctor.mode = "decorator"
    /\ Len(wrap[t]) = Len(hist[t])
    /\ LET identifier == WrapIdentifier(ctor.key_func, args)
       IN  \/ TB_Start(t, identifier)
           \/ SWL_Start(t, identifier)
           \/ FW_Start(t, identifier)
           \/ SWC_Start(t, identifier)

\* mutant: the wrapped function is called before the result is looked at
WrapOutcome_BodyFirst(result) ==
    IF ~result.allowed
    THEN [raised |-> IF result.retry_after = None THEN "TypeError"
                     ELSE "RateLimitExceeded",
          result |-> Some(result), body |-> 1]
    ELSE [raised |-> "", result |-> None, body |-> 1]

\* wrapper, lines 477-483: raise RateLimitExceeded(message, result), or call
\* the wrapped function once; formatting retry_after of None is a TypeError
WrapOutcome(result) ==
    IF ~result.allowed
    THEN [raised |-> IF result.retry_after = None THEN "TypeError"
                     ELSE "RateLimitExceeded",
          result |-> Some(result), body |-> 0]
    ELSE [raised |-> "", result |-> None, body |-> 1]

\* wrapper, lines 475-483, once limiter.allow has returned
Wrap_Finish(t) ==
    /\ ctor.mode = "decorator"
    /\ At(t, "idle")
    /\ Len(wrap[t]) < Len(hist[t])
    /\ wrap' = [wrap EXCEPT ![t] = Append(@, WrapOutcome(hist[t][Len(hist[t])]))]
    /\ UNCHANGED <<cfg, now, data, expiry, lock, pc, loc, hist, ctor>>

NextApp ==
    \/ Config_Construct
    \/ RL_CheckAlgorithm
    \/ RL_Config
    \/ RL_Storage
    \/ RL_Limiter
    \/ TickApp
    \/ RL_Allow(1, "A")
    \/ \E args \in CallArgs : Wrap_Call(1, args)
    \/ Wrap_Finish(1)
    \/ TB_GetTokens(1)
    \/ TB_GetLast(1)
    \/ TB_SetTokens(1)
    \/ TB_SetLast(1)
    \/ SWL_Cleanup(1)
    \/ SWL_GetList(1)
    \/ SWL_Add(1)
    \/ FW_Increment(1)
    \/ FW_Retry(1)
    \/ FW_Reset(1)
    \/ SWC_Time(1)
    \/ SWC_GetCurrent(1)
    \/ SWC_GetPrevious(1)
    \/ SWC_Increment(1)

SpecApp == InitApp /\ [][NextApp]_vars

(***************************************************************************)
(* SpecStore: one caller drives InMemoryStorage directly, with the seven   *)
(* methods in any order on a counter key and a list key, the clock         *)
(* advancing between the calls.  hist[1] holds the last call and what it   *)
(* returned.  loc[1][key] is not a variable of the code: it is what the    *)
(* caller knows of the key from its own calls, the last write (value, and  *)
(* until = time of the write + ttl) and fresh, the values appended since   *)
(* the key was last absent or expired.                                     *)
(***************************************************************************)
\* last clock value of SpecStore
MaxStoreTime == 3
\* largest ttl passed to the storage
MaxTTL == 2
\* largest counter value and list length the caller builds up
MaxStored == 2

StoreKeys == {<<"fw", "A", 0>>, <<"swl", "A", 0>>}
CounterKeys == {key \in StoreKeys : ~IsDequeKey(key)}
ListKeys == {key \in StoreKeys : IsDequeKey(key)}
\* the value the caller passes to set
SetValue == 42

Unwritten == [state |-> "absent", until |-> 0, value |-> 0, fresh |-> << >>]

StoreConfig == [alg |-> "storage", n |-> 1, w |-> 1, k |-> 1, m |-> 1,
                start |-> 0]

InitStore ==
    /\ cfg = StoreConfig
    /\ now = 0
    /\ data = << >>
    /\ expiry = << >>
    /\ lock = Free
    /\ pc = [t \in 1..1 |-> "idle"]
    /\ loc = [t \in 1..1 |-> [key \in StoreKeys |-> Unwritten]]
    /\ hist = [t \in 1..1 |-> << >>]
    /\ ctor = Prebuilt
    /\ wrap = [t \in 1..1 |-> << >>]

Written(value, ttl, fresh) ==
    [state |-> "written", until |-> now + ttl, value |-> value,
     fresh |-> fresh]

\* the call that just returned (arg is its ttl or cutoff, 0 if it takes
\* neither), and the caller's note on its key
Called(op, key, arg, ret, note) ==
    /\ hist' = [hist EXCEPT ![1] =
                   <<[op |-> op, key |-> key, arg |-> arg, t |-> now,
                      ret |-> ret]>>]
    /\ loc' = [loc EXCEPT ![1] = [@ EXCEPT ![key] = note]]
    /\ UNCHANGED <<cfg, now, lock, pc, ctor, wrap>>

StoreTick == now < MaxStoreTime /\ Tick

St_Increment(key, ttl) ==
    /\ key \in DOMAIN data => data[key] < MaxStored
    /\ LET r == StorageIncrement(Storage, key, ttl, now)
       IN  /\ SetStorage(r.st)
           /\ Called("increment", key, ttl, Some(r.ret),
                  Written(r.ret, ttl, << >>))

St_Get(key) ==
    LET r == StorageGet(Storage, key, now)
    IN  /\ SetStorage(r.st)
        /\ Called("get", key, 0, r.ret, loc[1][key])

St_Set(key, ttl) ==
    /\ SetStorage(StorageSet(Storage, key, SetValue, ttl, now).st)
    /\ Called("set", key, ttl, None, Written(SetValue, ttl, << >>))

St_Delete(key) ==
    /\ SetStorage(StorageDelete(Storage, key).st)
    /\ Called("delete", key, 0, None, Unwritten)

St_GetList(key) ==
    LET r == StorageGetList(Storage, key, now)
    IN  /\ SetStorage(r.st)
        /\ Called("get_list", key, 0, r.ret, loc[1][key])

\* the caller appends the current time, as the log limiter does
St_AddToList(key, ttl) ==
    /\ key \in DOMAIN data => Len(data[key]) < MaxStored
    /\ SetStorage(StorageAddToList(Storage, key, now, ttl, now).st)
    /\ LET note == loc[1][key]
           live == note.state # "absent" /\ now < note.until
       IN  Called("add_to_list", key, ttl, None,
                  Written(now, ttl, IF live THEN Append(note.fresh, now)
                                    ELSE <<now>>))

St_CleanupList(key, age) ==
    /\ SetStorage(StorageCleanupList(Storage, key, now - age).st)
    /\ LET note == loc[1][key]
       IN  Called("cleanup_list", key, now - age, None,
                  [note EXCEPT
                     !.state = IF @ = "written" THEN "trimmed" ELSE @,
                     !.fresh = SelectSeq(@, LAMBDA ts : ts > now - age)])

NextStore ==
    \/ StoreTick
    \/ \E key \in CounterKeys, ttl \in 1..MaxTTL : St_Increment(key, ttl)
    \/ \E key \in CounterKeys : St_Get(key)
    \/ \E key \in CounterKeys, ttl \in 1..MaxTTL : St_Set(key, ttl)
    \/ \E key \in StoreKeys : St_Delete(key)
    \/ \E key \in ListKeys : St_GetList(key)
    \/ \E key \in ListKeys, ttl \in 1..MaxTTL : St_AddToList(key, ttl)
    \/ \E key \in ListKeys, age \in 0..1 : St_CleanupList(key, age)

SpecStore == InitStore /\ [][NextStore]_vars

(***************************************************************************)
(* SpecFail: one caller makes MaxFailCalls sequential calls on a limiter   *)
(* whose StorageBackend may raise: any storage call of allow either        *)
(* completes or raises one of StorageErrors, having changed nothing.       *)
(* No allow method and no caller of one has a try statement, so the        *)
(* exception leaves allow as it is.  A call that ended this way is         *)
(* recorded in hist with the statement it was at, the exception the        *)
(* storage raised and the outcome the caller saw.                          *)
(***************************************************************************)
\* number of calls of the caller of SpecFail
MaxFailCalls == 2

StorageErrors == {"ConnectionError", "TimeoutError"}

\* the statements of the allow methods that call the storage
StorageCalls == {"tb_get_tokens", "tb_get_last", "tb_set_tokens",
                 "tb_set_last", "swl_cleanup", "swl_get_list", "swl_add",
                 "fw_increment", "swc_get_current", "swc_get_previous",
                 "swc_increment"}

\* mutant: the limiter catches the exception and admits the call
Unhandled_FailOpen(err) == [allowed |-> TRUE]

\* what the caller of allow gets when a storage call raised err
Unhandled(err) == [error |-> err]

Storage_Raise(t, err) ==
    /\ t \in Threads
    /\ pc[t] \in StorageCalls
    /\ hist' = [hist EXCEPT ![t] = Append(@,
                  [identifier |-> loc[t].identifier, t |-> loc[t].called_at,
                   tEnd |-> now, at |-> pc[t], raised |-> err,
                   outcome |-> Unhandled(err)])]
    /\ pc' = [pc EXCEPT ![t] = "idle"]
    /\ loc' = [loc EXCEPT ![t] = InitLoc]
    /\ UNCHANGED <<cfg, now, data, expiry, lock, ctor, wrap>>

FailConfigs ==
    {[alg |-> a, n |-> n, w |-> w, k |-> 1, m |-> MaxFailCalls, start |-> 0] :
        a \in Algorithms, n \in 1..MaxN, w \in Windows}

InitFail == InitState(FailConfigs)

\* the clock advances by at most MaxRaceTime between the calls
FailTick == now < MaxRaceTime /\ TickIdle

NextFail ==
    \/ FailTick
    \/ \E err \in StorageErrors : Storage_Raise(1, err)
    \/ TB_Start(1, "A")
    \/ TB_GetTokens(1)
    \/ TB_GetLast(1)
    \/ TB_SetTokens(1)
    \/ TB_SetLast(1)
    \/ SWL_Start(1, "A")
    \/ SWL_Cleanup(1)
    \/ SWL_GetList(1)
    \/ SWL_Add(1)
    \/ FW_Start(1, "A")
    \/ FW_Increment(1)
    \/ FW_Retry(1)
    \/ FW_Reset(1)
    \/ SWC_Start(1, "A")
    \/ SWC_Time(1)
    \/ SWC_GetCurrent(1)
    \/ SWC_GetPrevious(1)
    \/ SWC_Increment(1)

SpecFail == InitFail /\ [][NextFail]_vars

(***************************************************************************)
(* SpecAssign: RateLimitConfig is a plain dataclass (not frozen), so the   *)
(* program holding the limiter can assign to config.max_requests and       *)
(* config.window_seconds; __post_init__ does not run again.  One caller    *)
(* makes MaxAppCalls sequential calls and may assign between them.  The    *)
(* limiters here are the three that read both fields from self.config on   *)
(* every call; the token bucket also keeps refill_rate, computed once in   *)
(* its constructor.                                                        *)
(***************************************************************************)
AssignConfigs ==
    {[alg |-> a, n |-> n, w |-> w, k |-> 1, m |-> MaxAppCalls, start |-> 0] :
        a \in Algorithms \ {"token_bucket"}, n \in 1..MaxN, w \in Windows}

InitAssign == InitState(AssignConfigs)

\* limiter.config.max_requests = value
Config_SetMaxRequests(value) ==
    /\ pc[1] = "idle"
    /\ value # cfg.n
    /\ cfg' = [cfg EXCEPT !.n = value]
    /\ UNCHANGED <<now, data, expiry, lock, pc, loc, hist, ctor, wrap>>

\* limiter.config.window_seconds = value
Config_SetWindowSeconds(value) ==
    /\ pc[1] = "idle"
    /\ value # cfg.w
    /\ cfg' = [cfg EXCEPT !.w = value]
    /\ UNCHANGED <<now, data, expiry, lock, pc, loc, hist, ctor, wrap>>

NextAssign ==
    \/ FailTick
    \/ \E value \in 1..MaxN : Config_SetMaxRequests(value)
    \/ \E value \in Windows : Config_SetWindowSeconds(value)
    \/ SWL_Start(1, "A")
    \/ SWL_Cleanup(1)
    \/ SWL_GetList(1)
    \/ SWL_Add(1)
    \/ FW_Start(1, "A")
    \/ FW_Increment(1)
    \/ FW_Retry(1)
    \/ FW_Reset(1)
    \/ SWC_Start(1, "A")
    \/ SWC_Time(1)
    \/ SWC_GetCurrent(1)
    \/ SWC_GetPrevious(1)
    \/ SWC_Increment(1)

SpecAssign == InitAssign /\ [][NextAssign]_vars

(***************************************************************************)
(* SpecSolo: one caller makes MaxSoloCalls sequential calls for one        *)
(* identity on a limiter of any of the four algorithms, with quotas up to  *)
(* MaxSoloN and windows up to four seconds; the limiter is constructed at  *)
(* the start of a window or one second before its end, and the clock       *)
(* advances between calls.                                                 *)
(***************************************************************************)
\* number of calls of the caller of SpecSolo
MaxSoloCalls == 5
\* largest max_requests of SpecSolo
MaxSoloN == 3
\* seconds the clock advances during a run of SpecSolo
MaxSoloTime == 4

SoloWindows == {2, 3, 4}

SoloConfigs ==
    UNION {{[alg |-> a, n |-> n, w |-> w, k |-> 1, m |-> MaxSoloCalls,
             start |-> b] : b \in {0, w - 1}} :
           a \in Algorithms, n \in 1..MaxSoloN, w \in SoloWindows}

InitSolo == InitState(SoloConfigs)

SoloTick ==
    /\ pc[1] = "idle"
    /\ now < cfg.start + MaxSoloTime
    /\ now' = now + 1
    /\ UNCHANGED <<cfg, data, expiry, lock, pc, loc, hist, ctor, wrap>>

NextSolo ==
    \/ SoloTick
    \/ TB_Start(1, "A")
    \/ TB_GetTokens(1)
    \/ TB_GetLast(1)
    \/ TB_SetTokens(1)
    \/ TB_SetLast(1)
    \/ SWL_Start(1, "A")
    \/ SWL_Cleanup(1)
    \/ SWL_GetList(1)
    \/ SWL_Add(1)
    \/ FW_Start(1, "A")
    \/ FW_Increment(1)
    \/ FW_Retry(1)
    \/ FW_Reset(1)
    \/ SWC_Start(1, "A")
    \/ SWC_Time(1)
    \/ SWC_GetCurrent(1)
    \/ SWC_GetPrevious(1)
    \/ SWC_Increment(1)

SpecSolo == InitSolo /\ [][NextSolo]_vars

(***************************************************************************)
(* The allow methods as functions of a storage value, for a storage whose  *)
(* keys never expire: the statements of the methods in order, every clock  *)
(* read inside the storage being irrelevant because NeverExpiring drops    *)
(* the expiry times the writes record.  key_time is the clock value the    *)
(* window keys were computed from, current_time the one the method holds.  *)
(* Each returns [st, allowed, remaining].                                  *)
(***************************************************************************)
NeverExpiring(S) == [data |-> S.data, expiry |-> << >>]

TB_Allow(S, identifier, current_time) ==
    LET g1 == StorageGet(S, <<"tb:tokens", identifier, 0>>, current_time)
        g2 == StorageGet(g1.st, <<"tb:last", identifier, 0>>, current_time)
        fresh == g1.ret = None \/ g2.ret = None
        tokens0 == IF fresh THEN cfg.n * cfg.w ELSE g1.ret[1]
        last_refill == IF fresh THEN current_time ELSE g2.ret[1]
        tokens1 == TB_Refill(tokens0, last_refill, current_time, cfg.n, cfg.w)
        allowed == TB_Allowed(tokens1, cfg.w)
        tokens == IF allowed THEN tokens1 - cfg.w ELSE tokens1
        s1 == StorageSet(g2.st, <<"tb:tokens", identifier, 0>>, tokens,
                         cfg.w * 2, current_time).st
        s2 == StorageSet(s1, <<"tb:last", identifier, 0>>, current_time,
                         cfg.w * 2, current_time).st
    IN  [st |-> NeverExpiring(s2), allowed |-> allowed,
         remaining |-> TB_Remaining(tokens, cfg.w)]

SWL_Allow(S, identifier, current_time) ==
    LET key == <<"swl", identifier, 0>>
        c == StorageCleanupList(S, key, current_time - cfg.w).st
        g == StorageGetList(c, key, current_time)
        request_count == Len(g.ret)
        allowed == SWL_Allowed(request_count, cfg.n)
    IN  [st |-> IF allowed
                THEN NeverExpiring(StorageAddToList(g.st, key, current_time,
                                                    cfg.w, current_time).st)
                ELSE g.st,
         allowed |-> allowed,
         remaining |-> IF allowed THEN cfg.n - request_count - 1 ELSE 0]

FW_Allow(S, identifier, key_time) ==
    LET r == StorageIncrement(S, FW_WindowKey(identifier, key_time, cfg.w),
                              cfg.w, key_time)
        allowed == FW_Allowed(r.ret, cfg.n)
    IN  [st |-> NeverExpiring(r.st), allowed |-> allowed,
         remaining |-> IF allowed THEN cfg.n - r.ret ELSE 0]

SWC_Allow(S, identifier, key_time, current_time) ==
    LET current_key == SWC_CurrentKey(identifier, key_time, cfg.w)
        g1 == StorageGet(S, current_key, current_time)
        g2 == StorageGet(g1.st, SWC_PreviousKey(identifier, key_time, cfg.w),
                         current_time)
        weighted == SWC_Weighted(OrZero(g2.ret), OrZero(g1.ret),
                                 current_time, cfg.w)
        allowed == SWC_Allowed(weighted, cfg.n, cfg.w)
    IN  [st |-> IF allowed
                THEN NeverExpiring(StorageIncrement(g2.st, current_key,
                                                    cfg.w * 2, current_time).st)
                ELSE g2.st,
         allowed |-> allowed,
         remaining |-> IF allowed THEN SWC_Remaining(weighted, cfg.n, cfg.w)
                       ELSE 0]

\* the method of the configured limiter, on the clock values call c read
AllowOn(S, c) ==
    CASE cfg.alg = "token_bucket" -> TB_Allow(S, c.identifier, c.current_time)
      [] cfg.alg = "sliding_window_log" ->
            SWL_Allow(S, c.identifier, c.current_time)
      [] cfg.alg = "fixed_window" -> FW_Allow(S, c.identifier, c.t)
      [] OTHER -> SWC_Allow(S, c.identifier, c.t, c.current_time)

\* the never-expiring storage after the first j calls of h
RECURSIVE StoreAfter(_, _)
StoreAfter(h, j) ==
    IF j = 0 THEN [data |-> << >>, expiry |-> << >>]
    ELSE AllowOn(StoreAfter(h, j - 1), h[j]).st

(***************************************************************************)
(* SpecSlow: one caller makes MaxAppCalls sequential calls for one         *)
(* identity; the clock may advance at any point, also between two          *)
(* statements of a call, as it does when time.time() is read again inside  *)
(* the storage methods.                                                    *)
(***************************************************************************)
SlowConfigs ==
    {[alg |-> a, n |-> n, w |-> w, k |-> 1, m |-> MaxAppCalls, start |-> 0] :
        a \in Algorithms, n \in 1..MaxN, w \in Windows}

InitSlow == InitState(SlowConfigs)

NextSlow ==
    \/ Tick
    \/ TB_Start(1, "A")
    \/ TB_GetTokens(1)
    \/ TB_GetLast(1)
    \/ TB_SetTokens(1)
    \/ TB_SetLast(1)
    \/ SWL_Start(1, "A")
    \/ SWL_Cleanup(1)
    \/ SWL_GetList(1)
    \/ SWL_Add(1)
    \/ FW_Start(1, "A")
    \/ FW_Increment(1)
    \/ FW_Retry(1)
    \/ FW_Reset(1)
    \/ SWC_Start(1, "A")
    \/ SWC_Time(1)
    \/ SWC_GetCurrent(1)
    \/ SWC_GetPrevious(1)
    \/ SWC_Increment(1)

SpecSlow == InitSlow /\ [][NextSlow]_vars

(***************************************************************************)
(* SpecLock: k threads call allow m times each for one identity, with the  *)
(* storage lock explicit.  Every storage call of an allow method is three  *)
(* steps: the thread enters the with block of the storage method when no   *)
(* thread holds the lock, runs the method body holding it, and leaves the  *)
(* with block, which releases the lock, before the allow method goes on.   *)
(* The lock remembers the statement at which it was taken: the body has    *)
(* run when the holder is past that statement.  _cleanup_expired takes no  *)
(* lock and no storage method calls another one, so a body is one step.    *)
(* SpecLockFair adds the scheduling: a thread that can take the next step  *)
(* of its call, taking the free lock included, is eventually run.  Every   *)
(* thread makes a bounded number of calls, so the lock cannot be taken     *)
(* from a waiting thread for ever and weak fairness is enough.  Callers    *)
(* are not obliged to call.  The clock is read as one value throughout a   *)
(* call, as in Spec.                                                       *)
(***************************************************************************)
\* mutant: leaving the with block keeps the lock
Lock_Exit_Held(l) == l

\* leaving the with block releases the lock
Lock_Exit(l) == Free

\* thread t is at a storage call and has not entered the method yet
Lock_Outside(t) == t \in Threads /\ pc[t] \in StorageCalls /\ lock.holder # t

\* thread t holds the lock and the method body has not run yet
Lock_Entered(t) == t \in Threads /\ lock = HeldBy(t, pc[t])

\* thread t holds the lock and the method body has run
Lock_BodyDone(t) == t \in Threads /\ lock.holder = t /\ lock.at # pc[t]

\* with self._lock: entering
Lock_Acquire(t) ==
    /\ Lock_Outside(t)
    /\ LockFree(lock)
    /\ lock' = HeldBy(t, pc[t])
    /\ UNCHANGED <<cfg, now, data, expiry, pc, loc, hist, ctor, wrap>>

\* with self._lock: leaving
Lock_Release(t) ==
    /\ Lock_BodyDone(t)
    /\ lock' = Lock_Exit(lock)
    /\ UNCHANGED <<cfg, now, data, expiry, pc, loc, hist, ctor, wrap>>

\* the body of the storage method thread t has entered
Lock_Body(t) ==
    /\ Lock_Entered(t)
    /\ \/ TB_GetTokens(t)
       \/ TB_GetLast(t)
       \/ TB_SetTokens(t)
       \/ TB_SetLast(t)
       \/ SWL_Cleanup(t)
       \/ SWL_GetList(t)
       \/ SWL_Add(t)
       \/ FW_Increment(t)
       \/ SWC_GetCurrent(t)
       \/ SWC_GetPrevious(t)
       \/ SWC_Increment(t)

\* the statements of allow between storage calls
Lock_Between(t) ==
    /\ t \in Threads
    /\ lock.holder # t
    /\ \/ FW_Retry(t)
       \/ FW_Reset(t)
       \/ SWC_Time(t)

\* a caller calls allow
Lock_Start(t) ==
    /\ t \in Threads
    /\ lock.holder # t
    /\ \/ TB_Start(t, "A")
       \/ SWL_Start(t, "A")
       \/ FW_Start(t, "A")
       \/ SWC_Start(t, "A")

\* at most four calls in a run
LockConfigs ==
    {c \in [alg : Algorithms, n : 1..2, w : {2}, k : 1..MaxCallers,
             m : 1..2, start : {0}] : c.k * c.m <= 4}

InitLock == InitState(LockConfigs)

\* the clock advances between calls
LockTick == now < MaxRaceTime /\ TickIdle

NextLock ==
    \/ LockTick
    \/ \E t \in 1..MaxCallers :
          \/ Lock_Start(t)
          \/ Lock_Acquire(t)
          \/ Lock_Body(t)
          \/ Lock_Release(t)
          \/ Lock_Between(t)

SpecLock == InitLock /\ [][NextLock]_vars

SpecLockFair ==
    /\ SpecLock
    /\ \A t \in 1..MaxCallers :
          WF_vars(Lock_Acquire(t) \/ Lock_Body(t) \/ Lock_Release(t)
                    \/ Lock_Between(t))

(***************************************************************************)
(* Properties of sequential calls (checked under Spec).                    *)
(***************************************************************************)
\* the calls of one identity, in call order
CallsOf(h, identifier) == SelectSeq(h, LAMBDA r : r.identifier = identifier)

\* the position of call j among the calls its identity made in its fixed window
RankInWindow(h, j) ==
    Cardinality({i \in 1..j : /\ h[i].identifier = h[j].identifier
                              /\ WindowId(h[i].t, cfg.w) = WindowId(h[j].t, cfg.w)})

\* the admitted calls of an identity with a time stamp in (lo, hi]
AdmittedIn(h, identifier, lo, hi) ==
    {i \in 1..Len(h) : /\ h[i].identifier = identifier
                       /\ h[i].allowed
                       /\ lo < h[i].t
                       /\ h[i].t <= hi}

\* C1: fixed window, sequential calls: the i-th call an identity makes inside
\* one fixed window [k*w, (k+1)*w) is admitted when i <= n and denied when i > n.
C1_FixedWindowFirstN ==
    cfg.alg = "fixed_window" =>
        \A j \in 1..Len(hist[1]) :
            hist[1][j].allowed <=> RankInWindow(hist[1], j) <= cfg.n

C1_Witness ==
    /\ cfg.alg = "fixed_window"
    /\ cfg.n = 2
    /\ \E j \in 1..Len(hist[1]) :
          /\ RankInWindow(hist[1], j) = cfg.n + 1
          /\ ~hist[1][j].allowed
          /\ hist[1][j].t > 0

\* C2: sliding window log, sequential calls: for every identity and every time
\* t, at most n admitted calls have a time stamp in (t - w, t], and the stored
\* log never holds more than n entries newer than now - w.
C2_LogExact ==
    cfg.alg = "sliding_window_log" =>
        \A identifier \in Identities :
            /\ \A t \in 0..MaxTime :
                  Cardinality(AdmittedIn(hist[1], identifier, t - cfg.w, t)) <= cfg.n
            /\ LET key == <<"swl", identifier, 0>>
               IN  key \in DOMAIN data =>
                      Len(SelectSeq(data[key], LAMBDA ts : ts > now - cfg.w)) <= cfg.n

C2_Witness ==
    /\ cfg.alg = "sliding_window_log"
    /\ \E i, j \in 1..Len(hist[1]) :
          /\ i < j
          /\ hist[1][i].identifier = hist[1][j].identifier
          /\ ~hist[1][i].allowed
          /\ hist[1][j].allowed
          /\ hist[1][j].t < hist[1][i].t + cfg.w
          /\ Cardinality(AdmittedIn(hist[1], hist[1][j].identifier,
                                    hist[1][j].t - cfg.w, hist[1][j].t)) = cfg.n

\* C3 as claimed: token bucket, sequential calls: the first n calls of an
\* identity are admitted and its call n+1, made less than w seconds after the
\* first, is denied.
C3_DeniedWithinWindow ==
    cfg.alg = "token_bucket" =>
        \A identifier \in Identities :
            LET c == CallsOf(hist[1], identifier)
            IN  /\ \A i \in 1..Min(Len(c), cfg.n) : c[i].allowed
                /\ (Len(c) > cfg.n /\ c[cfg.n + 1].t < c[1].t + cfg.w)
                      => ~c[cfg.n + 1].allowed

\* C3 amended: token bucket, sequential calls: the first n calls of an identity
\* are admitted and its call n+1, made less than w/n seconds after the first
\* (before one token has been refilled), is denied.
C3_DeniedBeforeRefill ==
    cfg.alg = "token_bucket" =>
        \A identifier \in Identities :
            LET c == CallsOf(hist[1], identifier)
            IN  /\ \A i \in 1..Min(Len(c), cfg.n) : c[i].allowed
                /\ (Len(c) > cfg.n /\ (c[cfg.n + 1].t - c[1].t) * cfg.n < cfg.w)
                      => ~c[cfg.n + 1].allowed

C3_Witness ==
    /\ cfg.alg = "token_bucket"
    /\ cfg.n = 2
    /\ \E identifier \in Identities :
          LET c == CallsOf(hist[1], identifier)
          IN  /\ Len(c) > cfg.n
              /\ c[cfg.n + 1].t > c[1].t
              /\ (c[cfg.n + 1].t - c[1].t) * cfg.n < cfg.w
              /\ ~c[cfg.n + 1].allowed

\* C9: identity isolation: a step of an allow call for one identity leaves
\* every stored, unexpired key of every other identity as it was, value and
\* expiry, whatever the algorithm and whether the call is admitted or denied.
C9_IdentityIsolation ==
    [][LET acting == IF pc[1] = "idle" THEN loc'[1].identifier
                     ELSE loc[1].identifier
       IN  \A key \in DOMAIN data :
              (key[2] # acting /\ expiry[key] > now) =>
                 /\ key \in DOMAIN data'
                 /\ data'[key] = data[key]
                 /\ expiry'[key] = expiry[key]]_vars

C9_Witness ==
    /\ Len(hist[1]) >= 3
    /\ hist[1][1].identifier = "B"
    /\ hist[1][2].identifier = "A"
    /\ hist[1][3].identifier = "A"
    /\ hist[1][2].allowed
    /\ ~hist[1][3].allowed
    /\ \E key \in DOMAIN data : key[2] = "B" /\ expiry[key] > now

\* C10: every result has retry_after = None exactly when allowed is true.
C10_RetryAfterIffDenied ==
    \A j \in 1..Len(hist[1]) :
        (hist[1][j].retry_after = None) <=> hist[1][j].allowed

C10_Witness ==
    \E i, j \in 1..Len(hist[1]) :
        /\ hist[1][i].allowed
        /\ hist[1][i].retry_after = None
        /\ ~hist[1][j].allowed
        /\ hist[1][j].retry_after # None

(***************************************************************************)
(* Properties of concurrent calls (checked under SpecFW and SpecRace).     *)
(***************************************************************************)
\* the calls that have returned, as <<thread, index>>
Returned == {c \in (DOMAIN hist) \X (1..MaxCalls) : c[2] <= Len(hist[c[1]])}

ResultOf(c) == hist[c[1]][c[2]]

CallsFor(identifier) == {c \in Returned : ResultOf(c).identifier = identifier}

AdmittedFor(identifier) == {c \in CallsFor(identifier) : ResultOf(c).allowed}

\* every thread has made its m calls and all of them have returned
AllDone == \A t \in Threads : pc[t] = "idle" /\ Len(hist[t]) = cfg.m

\* every call began and returned inside one and the same fixed window
InOneWindow ==
    \A c, d \in Returned :
        WindowId(ResultOf(c).t, cfg.w) = WindowId(ResultOf(d).tEnd, cfg.w)

\* C4: fixed window under concurrency: when all calls of all threads lie
\* inside one fixed window, every identity that received at least n calls has
\* exactly n of them admitted, whatever the interleaving.
C4_FixedWindowConcurrent ==
    (cfg.alg = "fixed_window" /\ AllDone /\ InOneWindow) =>
        \A identifier \in Identities :
            Cardinality(CallsFor(identifier)) >= cfg.n =>
                Cardinality(AdmittedFor(identifier)) = cfg.n

C4_Witness ==
    /\ cfg.alg = "fixed_window"
    /\ AllDone
    /\ InOneWindow
    /\ now > cfg.start
    /\ cfg.n = 2
    /\ Cardinality(CallsFor("A")) = 3
    /\ Cardinality(AdmittedFor("A")) = 2
    /\ ~ResultOf(<<1, 1>>).allowed

\* C5: sliding window log under concurrency: k threads, one identity, all
\* calls at one instant, n <= k*m: exactly n calls are admitted.
C5_LogConcurrentExact ==
    (cfg.alg = "sliding_window_log" /\ AllDone /\ InOneWindow
        /\ cfg.n <= cfg.k * cfg.m) =>
            Cardinality(AdmittedFor("A")) = cfg.n

\* C6: token bucket under concurrency: k threads, one identity, all calls at
\* one instant (nothing is refilled during the race), n <= k*m: the number of
\* admitted calls is between n-1 and n+1.
C6_TokenBucketConcurrentWithinOne ==
    (cfg.alg = "token_bucket" /\ AllDone /\ cfg.n <= cfg.k * cfg.m) =>
        /\ Cardinality(AdmittedFor("A")) >= cfg.n - 1
        /\ Cardinality(AdmittedFor("A")) <= cfg.n + 1

\* C7: sliding window counter under concurrency: several threads, one fresh
\* identity, all calls inside one fixed window, more calls than n: the number
\* of admitted calls is between n-2 and n+2.
C7_CounterConcurrentWithinTwo ==
    (cfg.alg = "sliding_window_counter" /\ AllDone /\ InOneWindow
        /\ cfg.k * cfg.m > cfg.n) =>
            /\ Cardinality(AdmittedFor("A")) >= cfg.n - 2
            /\ Cardinality(AdmittedFor("A")) <= cfg.n + 2

\* C8: increment is atomic per key: when k threads each perform m increments
\* of one key that starts absent and never expires, the k*m values returned
\* are the distinct integers 1..k*m and the stored value ends at k*m.
C8_IncrementAtomic ==
    (cfg.alg = "increment" /\ AllDone
        /\ \A c \in Returned : ~ResultOf(c).purged) =>
            /\ {ResultOf(c).ret : c \in Returned} = 1..(cfg.k * cfg.m)
            /\ CounterKey \in DOMAIN data
            /\ data[CounterKey] = cfg.k * cfg.m

C8_Witness ==
    /\ cfg.alg = "increment"
    /\ AllDone
    /\ cfg.k = 2
    /\ cfg.m = 2
    /\ now > cfg.w
    /\ \A c \in Returned : ~ResultOf(c).purged
    /\ data[CounterKey] = 4
    /\ ResultOf(<<1, 1>>).ret = 2
    /\ ResultOf(<<2, 2>>).ret = 3

(***************************************************************************)
(* Properties of the returned result.                                      *)
(***************************************************************************)
\* C11: for every algorithm, the remaining field of every result returned by
\* allow is >= 0, and it is 0 whenever the call is denied.
C11_RemainingNonNegative ==
    \A c \in Returned :
        /\ ResultOf(c).remaining >= 0
        /\ ~ResultOf(c).allowed => ResultOf(c).remaining = 0

(***************************************************************************)
(* Properties of retry_after (checked under Spec).                         *)
(***************************************************************************)
\* calls i < j of one caller are made by the same identity and that identity
\* has no admitted call strictly between them (a denied call stores nothing)
NextAfter(h, i, j) ==
    /\ i < j
    /\ h[i].identifier = h[j].identifier
    /\ \A x \in (i + 1)..(j - 1) :
          h[x].identifier = h[i].identifier => ~h[x].allowed

\* the number of seconds a denied result of the sliding window log, the fixed
\* window or the sliding window counter tells the caller to wait
WholeSeconds(retry_after) == retry_after[1][1]

\* C12: sliding window log: when a call at time t is denied with retry_after
\* d, then d > 0, a following call of that identity before t + d is denied
\* and a following call at t + d is admitted.
C12_LogRetryExact ==
    cfg.alg = "sliding_window_log" =>
        \A i \in 1..Len(hist[1]) :
            ~hist[1][i].allowed =>
                LET d == WholeSeconds(hist[1][i].retry_after)
                IN  /\ d > 0
                    /\ \A j \in 1..Len(hist[1]) :
                          NextAfter(hist[1], i, j) =>
                             /\ hist[1][j].t < hist[1][i].t + d
                                    => ~hist[1][j].allowed
                             /\ hist[1][j].t = hist[1][i].t + d
                                    => hist[1][j].allowed

C12_Witness ==
    /\ cfg.alg = "sliding_window_log"
    /\ \E i, x, j \in 1..Len(hist[1]) :
          /\ NextAfter(hist[1], i, x)
          /\ NextAfter(hist[1], x, j)
          /\ ~hist[1][i].allowed
          /\ WholeSeconds(hist[1][i].retry_after) >= 2
          /\ hist[1][x].t > hist[1][i].t
          /\ ~hist[1][x].allowed
          /\ hist[1][j].t = hist[1][i].t + WholeSeconds(hist[1][i].retry_after)
          /\ hist[1][j].allowed

\* C13: sliding window counter: when a call at time t is denied with
\* retry_after d, a following call of that identity at t + d is admitted.
C13_CounterRetrySufficient ==
    cfg.alg = "sliding_window_counter" =>
        \A i, j \in 1..Len(hist[1]) :
            (/\ NextAfter(hist[1], i, j)
             /\ ~hist[1][i].allowed
             /\ hist[1][j].t = hist[1][i].t
                                + WholeSeconds(hist[1][i].retry_after))
                => hist[1][j].allowed

\* C14: token bucket: when a call at time t is denied with retry_after d
\* (= (1 - tokens) / refill_rate, here the fraction num/den), then d > 0 and
\* a following call of that identity at t + d is admitted.
C14_BucketRetrySufficient ==
    cfg.alg = "token_bucket" =>
        \A i \in 1..Len(hist[1]) :
            ~hist[1][i].allowed =>
                LET d == hist[1][i].retry_after[1]
                IN  /\ d[1] > 0
                    /\ d[2] > 0
                    /\ \A j \in 1..Len(hist[1]) :
                          (/\ NextAfter(hist[1], i, j)
                           /\ (hist[1][j].t - hist[1][i].t) * d[2] = d[1])
                              => hist[1][j].allowed

C14_Witness ==
    /\ cfg.alg = "token_bucket"
    /\ \E i, x, j \in 1..Len(hist[1]) :
          /\ NextAfter(hist[1], i, x)
          /\ NextAfter(hist[1], x, j)
          /\ ~hist[1][i].allowed
          /\ hist[1][x].t > hist[1][i].t
          /\ ~hist[1][x].allowed
          /\ (hist[1][j].t - hist[1][i].t) * hist[1][i].retry_after[1][2]
                = hist[1][i].retry_after[1][1]
          /\ hist[1][j].allowed

(***************************************************************************)
(* Properties of the fixed window across windows (checked under Spec).     *)
(***************************************************************************)
\* call j is made in a later fixed window than some earlier call of its identity
InLaterWindow(h, j) ==
    \E i \in 1..(j - 1) :
        /\ h[i].identifier = h[j].identifier
        /\ WindowId(h[i].t, cfg.w) < WindowId(h[j].t, cfg.w)

\* C15: fixed window reset: whatever calls an identity made in earlier
\* windows, its first call in a later window is admitted, and in that later
\* window exactly its first n calls are admitted.
C15_FixedWindowReset ==
    cfg.alg = "fixed_window" =>
        \A j \in 1..Len(hist[1]) :
            InLaterWindow(hist[1], j) =>
                /\ RankInWindow(hist[1], j) = 1 => hist[1][j].allowed
                /\ hist[1][j].allowed <=> RankInWindow(hist[1], j) <= cfg.n

C15_Witness ==
    /\ cfg.alg = "fixed_window"
    /\ cfg.n = 1
    /\ \E i, j, x \in 1..Len(hist[1]) :
          /\ i < j /\ j < x
          /\ hist[1][i].identifier = hist[1][j].identifier
          /\ hist[1][x].identifier = hist[1][j].identifier
          /\ ~hist[1][i].allowed
          /\ WindowId(hist[1][i].t, cfg.w) < WindowId(hist[1][j].t, cfg.w)
          /\ RankInWindow(hist[1], j) = 1
          /\ hist[1][j].allowed
          /\ RankInWindow(hist[1], x) = 2
          /\ ~hist[1][x].allowed

\* C16: fixed window boundary bound: for sequential calls of one identity, at
\* most 2n admitted calls have their times in any interval of length w.
C16_FixedWindowBoundaryBound ==
    cfg.alg = "fixed_window" =>
        \A identifier \in Identities :
            \A t \in 0..(MaxTime + 1) :
                Cardinality(AdmittedIn(hist[1], identifier, t - cfg.w, t))
                    <= 2 * cfg.n

C16_Witness ==
    /\ cfg.alg = "fixed_window"
    /\ \E t \in 0..MaxTime :
          /\ WindowId(t, cfg.w) > WindowId(t - 1, cfg.w)
          /\ Cardinality(AdmittedIn(hist[1], "A", t - cfg.w, t)) = 2 * cfg.n
          /\ \E j \in 1..Len(hist[1]) :
                /\ hist[1][j].identifier = "A"
                /\ hist[1][j].t = t - 1
                /\ ~hist[1][j].allowed

(***************************************************************************)
(* Properties of the token bucket refill (checked under Spec).             *)
(***************************************************************************)
\* the calls the identity of call i makes at time t1, when it made no call
\* between call i and time t1: the burst of retries after the wait
BurstAfter(h, i, t1) ==
    {j \in (i + 1)..Len(h) :
        /\ h[j].identifier = h[i].identifier
        /\ h[j].t = t1
        /\ \A x \in (i + 1)..j : h[x].identifier = h[i].identifier => h[x].t = t1}

AdmittedBurst(h, i, t1) == {j \in BurstAfter(h, i, t1) : h[j].allowed}

\* the token level, times w, that the denied call i found: retry_after is
\* (1 - tokens) / refill_rate = (w - tokens * w) / n
TokensAtDenial(h, i) == cfg.w - h[i].retry_after[1][1]

\* C17 as claimed: token bucket: after a call is denied at time t0 and no call
\* is made for t seconds, the burst of retries at t0 + t admits at most
\* floor(t * n / w) calls.
C17_RefillBound ==
    cfg.alg = "token_bucket" =>
        \A i \in 1..Len(hist[1]) :
            ~hist[1][i].allowed =>
                \A t1 \in (hist[1][i].t + 1)..MaxTime :
                    Cardinality(AdmittedBurst(hist[1], i, t1))
                        <= ((t1 - hist[1][i].t) * cfg.n) \div cfg.w

\* C17 amended: the burst admits at most floor(tokens + t * n / w) calls,
\* where tokens < 1 is the level the denied call found; that is at most
\* floor(t * n / w) + 1, and at most floor(t * n / w) when it found none.
C17_RefillBoundWithRemainder ==
    cfg.alg = "token_bucket" =>
        \A i \in 1..Len(hist[1]) :
            ~hist[1][i].allowed =>
                /\ TokensAtDenial(hist[1], i) >= 0
                /\ TokensAtDenial(hist[1], i) < cfg.w
                /\ \A t1 \in (hist[1][i].t + 1)..MaxTime :
                      Cardinality(AdmittedBurst(hist[1], i, t1))
                          <= (TokensAtDenial(hist[1], i)
                              + (t1 - hist[1][i].t) * cfg.n) \div cfg.w

C17_Witness ==
    /\ cfg.alg = "token_bucket"
    /\ \E i \in 1..Len(hist[1]) :
          /\ ~hist[1][i].allowed
          /\ TokensAtDenial(hist[1], i) > 0
          /\ \E t1 \in (hist[1][i].t + 1)..MaxTime :
                /\ Cardinality(AdmittedBurst(hist[1], i, t1))
                      > ((t1 - hist[1][i].t) * cfg.n) \div cfg.w
                /\ \E j \in BurstAfter(hist[1], i, t1) : ~hist[1][j].allowed

(***************************************************************************)
(* Properties of construction and of the decorator (checked under SpecApp).*)
(***************************************************************************)
\* C18: call wrapper: for every call of a decorated function the wrapped body
\* runs once when the allow check admits and not at all when it denies; a
\* denial raises RateLimitExceeded carrying the result, which has allowed =
\* false and a retry_after; and the calls of the function share one limiter:
\* with the fixed window, a call is refused exactly when its identifier
\* already made n calls of the function in the window.
C18_WrapperRunsBodyIffAdmitted ==
    ctor.mode = "decorator" =>
        \A j \in 1..Len(wrap[1]) :
            LET o == wrap[1][j]
                r == hist[1][j]
            IN  /\ r.allowed => (o.body = 1 /\ o.raised = "")
                /\ ~r.allowed =>
                      /\ o.body = 0
                      /\ o.raised = "RateLimitExceeded"
                      /\ o.result = Some(r)
                      /\ ~o.result[1].allowed
                      /\ o.result[1].retry_after # None
                /\ cfg.alg = "fixed_window" =>
                      (o.raised # "" <=> RankInWindow(hist[1], j) > cfg.n)

C18_Witness ==
    /\ ctor.mode = "decorator"
    /\ ctor.key_func = None
    /\ Len(wrap[1]) = 3
    /\ hist[1][1].identifier = "default"
    /\ hist[1][2].identifier = "A"
    /\ hist[1][3].identifier = "A"
    /\ wrap[1][1].body = 1
    /\ wrap[1][2].body = 1
    /\ wrap[1][3].body = 0
    /\ wrap[1][3].raised = "RateLimitExceeded"

\* C19: configuration validation: RateLimitConfig(max_requests,
\* window_seconds) with a value <= 0 raises at once and yields no object,
\* every positive pair yields the configuration with these values, and no
\* limiter is built or runs with a quota or window <= 0.
C19_ConfigValidated ==
    /\ (ctor.config_given /\ ctor.step # "config") =>
          IF ctor.max_requests <= 0 \/ ctor.window_seconds <= 0
          THEN /\ ctor.step = "failed"
               /\ ctor.error \in {"ValueError: max_requests must be positive",
                                   "ValueError: window_seconds must be positive"}
               /\ ctor.config = None
               /\ ctor.created = {}
          ELSE ctor.config = Some([max_requests |-> ctor.max_requests,
                                   window_seconds |-> ctor.window_seconds])
    /\ (ctor.step = "built" \/ pc[1] # "idle" \/ hist[1] # << >>) =>
          (cfg.n > 0 /\ cfg.w > 0)

C19_Witness ==
    /\ ctor.config_given
    /\ ctor.max_requests > 0
    /\ ctor.window_seconds = 0
    /\ ctor.algorithm = "fixed_window"
    /\ ctor.step = "failed"

\* the statements of allow of the limiter class registered under a name
LimiterSteps(name) ==
    IF name = "token_bucket"
    THEN {"tb_get_tokens", "tb_get_last", "tb_set_tokens", "tb_set_last"}
    ELSE IF name = "sliding_window_log"
    THEN {"swl_cleanup", "swl_get_list", "swl_add"}
    ELSE IF name = "fixed_window"
    THEN {"fw_increment", "fw_retry", "fw_reset"}
    ELSE IF name = "sliding_window_counter"
    THEN {"swc_time", "swc_get_current", "swc_get_previous", "swc_increment"}
    ELSE {}

\* C20: RateLimiter(algorithm, ...) with a name outside the four registered
\* ones raises ValueError before a default configuration, a storage or a
\* limiter is created; with one of the four names, the limiter built and run
\* is the one registered under that name.
C20_AlgorithmChecked ==
    /\ ctor.algorithm \notin {"token_bucket", "sliding_window_log",
                             "fixed_window", "sliding_window_counter"} =>
          /\ ctor.step \in {"config", "facade", "failed"}
          /\ ctor.created \subseteq {"config"}
          /\ (ctor.step = "failed" /\ (ctor.config_given => ctor.config # None))
                => ctor.error = "ValueError: Unknown algorithm"
    /\ ctor.step = "built" =>
          /\ cfg.alg = ctor.algorithm
          /\ pc[1] # "idle" => pc[1] \in LimiterSteps(ctor.algorithm)

C20_Witness ==
    /\ ctor.algorithm = "leaky_bucket"
    /\ ctor.mode = "facade"
    /\ ~ctor.config_given
    /\ ~ctor.storage_given
    /\ ctor.step = "failed"
    /\ ctor.error = "ValueError: Unknown algorithm"

(***************************************************************************)
(* Properties of the storage (checked under SpecStore).                    *)
(***************************************************************************)
\* the last storage call was op
LastCalled(op) == hist[1] # << >> /\ hist[1][1].op = op

\* C21: a key written with set, increment or add_to_list at time t0 with
\* TTL ttl, and not touched by another write since, reads as written at
\* every time before t0 + ttl (get returns the value, get_list a list that
\* ends with the appended value) and as absent (None, the empty list) at
\* every time from t0 + ttl on.
C21_ExpiredKeysReadAbsent ==
    (LastCalled("get") \/ LastCalled("get_list")) =>
        LET o == hist[1][1]
            note == loc[1][o.key]
        IN  note.state = "written" =>
               IF o.t < note.until
               THEN IF o.op = "get" THEN o.ret = Some(note.value)
                    ELSE /\ o.ret # << >>
                         /\ o.ret[Len(o.ret)] = note.value
               ELSE o.ret = << >>

\* a counter written earlier is read at the very second its TTL ends, and a
\* list is read one second before its TTL ends
C21_Witness ==
    /\ LastCalled("get")
    /\ loc[1][hist[1][1].key].state = "written"
    /\ hist[1][1].t = loc[1][hist[1][1].key].until
    /\ hist[1][1].ret = None
    /\ loc[1][<<"swl", "A", 0>>].state = "written"
    /\ loc[1][<<"swl", "A", 0>>].until = now + 1

\* C22: the content of an expired key is never visible again: get_list
\* returns only values appended since the key last expired (or was absent).
C22_ExpiredContentGone ==
    LastCalled("get_list") =>
        LET o == hist[1][1]
            fresh == loc[1][o.key].fresh
        IN  \A i \in 1..Len(o.ret) : \E j \in 1..Len(fresh) : fresh[j] = o.ret[i]

\* C23: when a storage call has just returned, no key whose expiry time is
\* <= the current time is still stored.
C23_EveryCallPurges ==
    (hist[1] # << >> /\ hist[1][1].t = now) =>
        \A key \in DOMAIN expiry : expiry[key] > now

(***************************************************************************)
(* Properties of calls on a failing storage (checked under SpecFail).      *)
(***************************************************************************)
\* the call that has just ended, in the step from the unprimed state
Ended == hist'[1][Len(hist'[1])]

C25_ConfigImmutable == [][cfg'.n = cfg.n /\ cfg'.w = cfg.w]_vars

(***************************************************************************)
(* Rate bounds of the token bucket and the sliding window counter          *)
(* (checked under SpecSolo).                                               *)
(***************************************************************************)
\* the number of calls of h admitted at times lo..hi
AdmittedBetween(h, lo, hi) ==
    Cardinality({i \in 1..Len(h) :
                    h[i].allowed /\ lo <= h[i].t /\ h[i].t <= hi})

\* C26: token bucket rate bound: the calls admitted in any time interval of
\* length T number at most n + T * (n / w).
C26_BucketRateBound ==
    cfg.alg = "token_bucket" =>
        \A i, j \in 1..Len(hist[1]) :
            hist[1][i].t <= hist[1][j].t =>
                AdmittedBetween(hist[1], hist[1][i].t, hist[1][j].t) * cfg.w
                    <= cfg.n * cfg.w + (hist[1][j].t - hist[1][i].t) * cfg.n

\* the bound is met with equality over an interval of positive length in
\* which a call was denied: the full burst, then every refilled token
C26_Witness ==
    /\ cfg.alg = "token_bucket"
    /\ \E i, j \in 1..Len(hist[1]) :
          /\ hist[1][i].t < hist[1][j].t
          /\ AdmittedBetween(hist[1], hist[1][i].t, hist[1][j].t) * cfg.w
                = cfg.n * cfg.w + (hist[1][j].t - hist[1][i].t) * cfg.n
          /\ \E d \in i..j : ~hist[1][d].allowed

\* the number of calls of h admitted in the trailing interval of length w
\* that ends with call j
AdmittedTrailing(h, j, w) ==
    Cardinality({i \in 1..j : h[i].allowed /\ h[i].t > h[j].t - w})

\* C27: sliding window counter error bound: the admitted calls whose times
\* lie in any trailing interval of length w exceed n by at most one.
C27_CounterWithinOne ==
    cfg.alg = "sliding_window_counter" =>
        \A j \in 1..Len(hist[1]) :
            AdmittedTrailing(hist[1], j, cfg.w) <= cfg.n + 1

\* C27 amended: the admitted calls in any trailing interval of length w
\* number at most 2n, at most n in each of the two fixed windows the
\* interval meets.
C27_CounterWithinTwice ==
    cfg.alg = "sliding_window_counter" =>
        \A j \in 1..Len(hist[1]) :
            AdmittedTrailing(hist[1], j, cfg.w) <= 2 * cfg.n

\* a trailing interval holds more than n + 1 admitted calls
C27_Witness ==
    /\ cfg.alg = "sliding_window_counter"
    /\ \E j \in 1..Len(hist[1]) :
          AdmittedTrailing(hist[1], j, cfg.w) > cfg.n + 1

\* the token level (scaled by w) a token bucket call finds after the
\* refill, computed from what the storage held when the call began
RefilledLevel(t) ==
    LET fresh == loc[t].key \notin DOMAIN data \/ loc[t].key2 \notin DOMAIN data
    IN  IF fresh THEN cfg.n * cfg.w
        ELSE Min(cfg.n * cfg.w,
                 data[loc[t].key]
                 + (loc[t].current_time - data[loc[t].key2]) * cfg.n)

\* C29: token bucket level invariant: the token value persisted for every
\* identity satisfies 0 <= tokens <= n; an admitted call persists the
\* refilled level lowered by exactly one, a denied call the refilled level
\* itself.
C29_BucketLevel ==
    cfg.alg = "token_bucket" =>
        /\ \A identifier \in Identities :
              <<"tb:tokens", identifier, 0>> \in DOMAIN data =>
                  /\ 0 <= data[<<"tb:tokens", identifier, 0>>]
                  /\ data[<<"tb:tokens", identifier, 0>>] <= cfg.n * cfg.w
        /\ pc[1] = "tb_set_tokens" =>
              /\ loc[1].tokens = IF loc[1].allowed THEN RefilledLevel(1) - cfg.w
                                 ELSE RefilledLevel(1)
              /\ loc[1].allowed <=> RefilledLevel(1) >= cfg.w
        /\ pc[1] = "tb_set_last" => data[loc[1].key] = loc[1].tokens

\* a denied call is about to persist a level strictly between 0 and 1
\* token, after calls of the identity that were admitted
C29_Witness ==
    /\ cfg.alg = "token_bucket"
    /\ pc[1] = "tb_set_tokens"
    /\ ~loc[1].allowed
    /\ 0 < loc[1].tokens
    /\ loc[1].tokens < cfg.w
    /\ loc[1].key \in DOMAIN data
    /\ \E i \in 1..Len(hist[1]) : hist[1][i].allowed

\* C30: sliding window counter per-window cap: the stored counter of every
\* fixed window never exceeds n, whatever the previous window's count.
C30_CounterWindowCap ==
    cfg.alg = "sliding_window_counter" =>
        \A key \in DOMAIN data : key[1] = "swc" => data[key] <= cfg.n

\* the current window has reached n after a previous window that admitted
\* calls, and a further call has been denied
C30_Witness ==
    /\ cfg.alg = "sliding_window_counter"
    /\ pc[1] = "idle"
    /\ Len(hist[1]) > 0
    /\ ~hist[1][Len(hist[1])].allowed
    /\ SWC_CurrentKey("A", now, cfg.w) \in DOMAIN data
    /\ data[SWC_CurrentKey("A", now, cfg.w)] = cfg.n
    /\ SWC_PreviousKey("A", now, cfg.w) \in DOMAIN data

(***************************************************************************)
(* Expiry and the decisions (checked under SpecSlow).                      *)
(***************************************************************************)
\* C28: expiry is advisory: the decisions (allowed, remaining) the calls
\* returned over the TTL-expiring storage are the decisions the same
\* algorithm returns, for the same clock readings, over a storage in which
\* keys never expire.
C28_ExpiryAdvisory ==
    \A j \in 1..Len(hist[1]) :
        LET r == AllowOn(StoreAfter(hist[1], j - 1), hist[1][j])
        IN  /\ hist[1][j].allowed = r.allowed
            /\ hist[1][j].remaining = r.remaining

(***************************************************************************)
(* Further properties of sequential calls of one identity (checked under   *)
(* SpecSolo).                                                              *)
(***************************************************************************)
\* C31: sliding window counter recovery: when a call is denied at time t
\* and the next call of the identity comes later than t + w, that call is
\* admitted.
C31_CounterRecovers ==
    cfg.alg = "sliding_window_counter" =>
        \A i \in 1..(Len(hist[1]) - 1) :
            (~hist[1][i].allowed /\ hist[1][i + 1].t > hist[1][i].t + cfg.w)
                => hist[1][i + 1].allowed

\* a call was denied in a full window, and the next call, w + 1 seconds
\* later, falls in the window right after it and is admitted
C31_Witness ==
    /\ cfg.alg = "sliding_window_counter"
    /\ \E i \in 1..(Len(hist[1]) - 1) :
          /\ ~hist[1][i].allowed
          /\ hist[1][i + 1].t = hist[1][i].t + cfg.w + 1
          /\ WindowId(hist[1][i + 1].t, cfg.w)
                = WindowId(hist[1][i].t, cfg.w) + 1
          /\ hist[1][i + 1].allowed

\* C32: fixed window remaining count: the i-th call of an identity inside
\* one fixed window, i <= n, returns remaining = n - i.
C32_FixedWindowRemaining ==
    cfg.alg = "fixed_window" =>
        \A j \in 1..Len(hist[1]) :
            RankInWindow(hist[1], j) <= cfg.n =>
                hist[1][j].remaining = cfg.n - RankInWindow(hist[1], j)

\* a window was used up (remaining 0, then a denial) and the first call of
\* a later window starts again at n - 1
C32_Witness ==
    /\ cfg.alg = "fixed_window"
    /\ cfg.n >= 2
    /\ \E i, d, j \in 1..Len(hist[1]) :
          /\ i < d
          /\ d < j
          /\ RankInWindow(hist[1], i) = cfg.n
          /\ hist[1][i].remaining = 0
          /\ ~hist[1][d].allowed
          /\ WindowId(hist[1][d].t, cfg.w) < WindowId(hist[1][j].t, cfg.w)
          /\ hist[1][j].remaining = cfg.n - 1

\* the first 2n calls of h are n calls in the last second of a window and n
\* calls in the first second of the next window
BoundaryBurst(h, n, w) ==
    /\ Len(h) >= 2 * n
    /\ WindowId(h[1].t + 1, w) = WindowId(h[1].t, w) + 1
    /\ \A x \in 1..n : h[x].t = h[1].t
    /\ \A x \in (n + 1)..(2 * n) : h[x].t = h[1].t + 1

\* C33: the fixed-window boundary burst: n calls of one identity at the
\* tail of a window and n at the head of the next, 2n calls within one
\* second (less than w), are all admitted.
C33_BoundaryBurstAdmitted ==
    (cfg.alg = "fixed_window" /\ BoundaryBurst(hist[1], cfg.n, cfg.w)) =>
        \A x \in 1..(2 * cfg.n) : hist[1][x].allowed

\* such a burst of 2n = 4 calls has been made and admitted
C33_Witness ==
    /\ cfg.alg = "fixed_window"
    /\ cfg.n = 2
    /\ BoundaryBurst(hist[1], cfg.n, cfg.w)
    /\ \A x \in 1..4 : hist[1][x].allowed
    /\ hist[1][4].t - hist[1][1].t < cfg.w

\* key is stored with the same value and the same expiry before and after
\* the step, or is absent before and after it
SameKey(key) ==
    /\ (key \in DOMAIN data') <=> (key \in DOMAIN data)
    /\ key \in DOMAIN data => data'[key] = data[key]
    /\ (key \in DOMAIN expiry') <=> (key \in DOMAIN expiry)
    /\ key \in DOMAIN expiry => expiry'[key] = expiry[key]

\* the step returns a denied result
ReturnsDenied ==
    /\ Len(hist'[1]) = Len(hist[1]) + 1
    /\ ~hist'[1][Len(hist'[1])].allowed

\* C34: a denied call does not consume quota in the sliding-window
\* algorithms.  A denied call returns from the statement that reads the
\* storage, before anything is added.  In the log limiter what precedes is
\* cleanup_list, which drops from the identity's log exactly the entries
\* <= current_time - w and leaves its expiry alone, and the read that
\* denies leaves the key as it is.  In the counter limiter the statements
\* up to and including the read that denies leave both window counters and
\* their expiries unchanged.
C34_DeniedConsumesNothing ==
    [][/\ ReturnsDenied =>
             pc[1] \in {"tb_set_last", "swl_get_list", "fw_reset",
                        "swc_get_previous"}
       /\ pc[1] = "swl_cleanup" =>
             /\ expiry' = expiry
             /\ DOMAIN data' = DOMAIN data
             /\ loc[1].key \in DOMAIN data =>
                   data'[loc[1].key] =
                      SelectSeq(data[loc[1].key],
                                LAMBDA ts : ~(ts <= loc[1].current_time - cfg.w))
       /\ (pc[1] = "swl_get_list" /\ ReturnsDenied) => SameKey(loc[1].key)
       /\ pc[1] \in {"swc_time", "swc_get_current", "swc_get_previous"} =>
             SameKey(loc[1].key) /\ SameKey(loc[1].key2)]_vars

\* a sliding window counter call has been denied by the weight of the
\* previous window while the current window's counter is below n
C34_Witness ==
    /\ cfg.alg = "sliding_window_counter"
    /\ pc[1] = "idle"
    /\ Len(hist[1]) > 0
    /\ ~hist[1][Len(hist[1])].allowed
    /\ hist[1][Len(hist[1])].t = now
    /\ SWC_CurrentKey("A", now, cfg.w) \in DOMAIN data
    /\ data[SWC_CurrentKey("A", now, cfg.w)] < cfg.n
    /\ SWC_PreviousKey("A", now, cfg.w) \in DOMAIN data

\* C36: the reset_at of every call made at time t is strictly later than
\* t; for fixed window and sliding window counter it is the start of the
\* next fixed window, for the log t + w, and for the token bucket
\* t + (n - tokens) / (n / w) with tokens the level the call persisted.
C36_ResetAt ==
    \A j \in 1..Len(hist[1]) :
        LET r == hist[1][j]
        IN  /\ r.reset_at[1] > r.t * r.reset_at[2]
            /\ cfg.alg \in {"fixed_window", "sliding_window_counter"} =>
                  r.reset_at = <<(WindowId(r.t, cfg.w) + 1) * cfg.w, 1>>
            /\ cfg.alg = "sliding_window_log" => r.reset_at = <<r.t + cfg.w, 1>>
            /\ (cfg.alg = "token_bucket" /\ j = Len(hist[1]) /\ pc[1] = "idle") =>
                  r.reset_at[1] * cfg.n =
                     (r.t * cfg.n + cfg.n * cfg.w - data[<<"tb:tokens", "A", 0>>])
                     * r.reset_at[2]

\* a token bucket call was denied, persisting a fractional level, and
\* returned a reset_at later than its own time
C36_Witness ==
    /\ cfg.alg = "token_bucket"
    /\ pc[1] = "idle"
    /\ Len(hist[1]) > 0
    /\ ~hist[1][Len(hist[1])].allowed
    /\ data[<<"tb:tokens", "A", 0>>] > 0
    /\ hist[1][Len(hist[1])].reset_at[1]
          > hist[1][Len(hist[1])].t * hist[1][Len(hist[1])].reset_at[2]

(***************************************************************************)
(* The windows a call works with (checked under SpecSlow).                 *)
(***************************************************************************)
\* C35: single consistent window per call: in a fixed window or sliding
\* window counter call, the window whose index chose the counter key (the
\* window of the first clock read, r.t) is the window of the clock value
\* used for the elapsed fraction, and the one retry_after and reset_at
\* point to the end of, also when the clock crosses a window boundary
\* between the clock reads of the call.
C35_SingleWindowPerCall ==
    cfg.alg \in {"fixed_window", "sliding_window_counter"} =>
        \A j \in 1..Len(hist[1]) :
            LET r == hist[1][j]
                window_end == (WindowId(r.t, cfg.w) + 1) * cfg.w
            IN  /\ r.reset_at = <<window_end, 1>>
                /\ ~r.allowed => r.t + r.retry_after[1][1] <= window_end
                /\ cfg.alg = "sliding_window_counter" =>
                      WindowId(r.current_time, cfg.w) = WindowId(r.t, cfg.w)

(***************************************************************************)
(* The effect of single storage calls (checked under SpecStore).           *)
(***************************************************************************)
\* the step is a call of op (the clock does not move during a call)
IsCall(op) == hist'[1] # << >> /\ hist'[1][1].op = op /\ now' = now

IncrementEffect ==
    LET key == hist'[1][1].key
        ttl == hist'[1][1].arg
        present == key \in DOMAIN expiry /\ expiry[key] > now
        new_value == IF present THEN data[key] + 1 ELSE 1
    IN  /\ hist'[1][1].ret = Some(new_value)
        /\ data'[key] = new_value
        /\ expiry'[key] = now + ttl

\* the value the caller last wrote to the key of the call, if that write
\* was at most (strictly less than, if strict) its ttl ago
WrittenWithinTtl(strict) ==
    LET note == loc[1][hist'[1][1].key]
    IN  /\ note.state = "written"
        /\ IF strict THEN now < note.until ELSE now <= note.until

\* C38: increment(key, ttl) on an absent or expired counter key stores
\* and returns 1, on a present key it stores and returns the previous value
\* plus one, and in both cases it sets the key's expiry to the current time
\* plus ttl; so a key incremented at least once every ttl seconds never
\* expires: an increment at most ttl seconds after the previous write
\* continues the count.
C38_IncrementEveryTtl ==
    [][IsCall("increment") =>
          /\ IncrementEffect
          /\ WrittenWithinTtl(FALSE) =>
                hist'[1][1].ret = Some(loc[1][hist'[1][1].key].value + 1)]_vars

\* C38 amended: as above, but the count continues only when the key is
\* incremented again strictly less than ttl seconds after the previous
\* write; at exactly ttl seconds the key has expired.
C38_IncrementWithinTtl ==
    [][IsCall("increment") =>
          /\ IncrementEffect
          /\ WrittenWithinTtl(TRUE) =>
                hist'[1][1].ret = Some(loc[1][hist'[1][1].key].value + 1)]_vars

\* a counter incremented at time 0 with ttl 2 has been incremented again one
\* second later and returned 2, with its expiry moved to 3
C38_Witness ==
    /\ LastCalled("increment")
    /\ hist[1][1].t = 1
    /\ now = 1
    /\ hist[1][1].arg = 2
    /\ hist[1][1].ret = Some(2)
    /\ expiry[hist[1][1].key] = 3

(***************************************************************************)
(* The storage lock (checked under SpecLockFair).                          *)
(***************************************************************************)
\* thread t has called allow and the call has not returned yet; the call
\* has returned when its last storage method has released the lock
InCall(t) == t \in Threads /\ (pc[t] # "idle" \/ lock.holder = t)

\* thread t is outside allow and its last call returned a decision
Decided(t) ==
    /\ t \in Threads
    /\ pc[t] = "idle"
    /\ lock.holder # t
    /\ hist[t] # << >>
    /\ hist[t][Len(hist[t])].allowed \in BOOLEAN

\* the stored data change only in a step of the thread that holds the lock
\* and has entered a storage method, and that step keeps the lock
StorageUnderLock ==
    (data' # data \/ expiry' # expiry) =>
        /\ lock' = lock
        /\ \E t \in Threads : Lock_Entered(t)

\* a thread holding the lock moves only by running the body of the storage
\* method it has entered: it has released the lock before allow goes on
ReleasedBeforeGoingOn ==
    \A t \in Threads :
        (pc'[t] # pc[t] /\ lock.holder = t) => Lock_Entered(t) /\ lock' = lock

\* the lock is taken only when it is free, so never by a thread (the holder
\* included) while it is held
AcquiredOnlyWhenFree ==
    lock' # lock => (lock = Free \/ lock' = Free)

\* C39: with any number of threads calling allow concurrently on one
\* limiter, every storage operation acquires the single storage lock,
\* releases it before returning and never acquires it while it is held, and
\* under fair scheduling every allow call eventually returns a decision.
C39_NoBlocking ==
    /\ [][StorageUnderLock /\ ReleasedBeforeGoingOn /\ AcquiredOnlyWhenFree]_vars
    /\ \A t \in 1..MaxCallers : InCall(t) ~> Decided(t)

\* two threads have both made their two token bucket calls with one token
\* available at a time, every call has returned and the lock is free
C39_Witness ==
    /\ cfg.alg = "token_bucket"
    /\ cfg.k = 2
    /\ cfg.m = 2
    /\ cfg.n = 1
    /\ lock = Free
    /\ \A t \in Threads : Decided(t) /\ Len(hist[t]) = 2
    /\ \E t \in Threads : ~hist[t][2].allowed

====
